---- MODULE Spec2Model ----
(***************************************************************************)
(* A model of the GPS geotagging tool gps_checker.py (and of the           *)
(* single-file checker check_gps.py): the coordinate conversions, the two  *)
(* EXIF dialects, the nearest-timestamp lookup in the track log, the GPS   *)
(* writer and the per-file pipeline run by the worker pool of scan_images. *)
(*                                                                         *)
(* Python values are tagged records: None is [k |-> "None"], a datetime is *)
(* [k |-> "dt", t |-> ticks], a list is [k |-> "list", items |-> <<...>>]. *)
(* Time is counted in ticks, TicksPerSecond ticks to the second, so that   *)
(* track points read from fractional epoch values fall between seconds.    *)
(***************************************************************************)
EXTENDS Integers, Sequences, FiniteSets, TLC

VARIABLES
    call,       \* the pure function under check and its arguments
    ret,        \* its returned value
    config,     \* scan_images: gps_csv_path, gps_log, overwrite_gps, move_nogps,
                \* time_tolerance
    at_start,   \* the content of each image file when the run starts
    disk,       \* the content of each image file
    place,      \* where each file is: "folder" or "holding"
    task,       \* the state of each file's process_single_image call
    collected,  \* the files whose future the as_completed loop has consumed
    results,    \* scan_images: the results list
    summary,    \* scan_images: the counts, once computed
    holding_dir \* the holding directory of the folder: "absent" or "dir"

pureVars == <<call, ret>>
scanVars ==
    <<config, at_start, disk, place, task, collected, results, summary, holding_dir>>
vars ==
    <<call, ret, config, at_start, disk, place, task, collected, results, summary,
      holding_dir>>

\* ------------------------------------------------------------------------
\* Bounds of the model
\* ------------------------------------------------------------------------
TicksPerSecond == 2
MaxTick == 4
MaxLogLen == 3
\* decimal degrees are drawn from the grid of 1 / DegGrid degree
DegGrid == 512

\* ------------------------------------------------------------------------
\* Python values
\* ------------------------------------------------------------------------
None == [k |-> "None"]

\* the pipeline's variables while a pure function is checked on its own
ScanIdle ==
    /\ config = None /\ at_start = <<>> /\ disk = <<>> /\ place = <<>> /\ task = <<>>
    /\ collected = {} /\ results = <<>> /\ summary = None /\ holding_dir = None

Pending == [k |-> "pending"]
Datetime(t) == [k |-> "dt", t |-> t]
List(s) == [k |-> "list", items |-> s]

Abs(x) == IF x < 0 THEN -x ELSE x

\* variant: the test is `is not None`
Truthy_NotNone(x) == x.k # "None"

\* Python truth value of an optional datetime or an optional list
Truthy(x) ==
    CASE x.k = "None" -> FALSE
      [] x.k = "list" -> Len(x.items) > 0
      [] OTHER -> TRUE

\* timedelta(seconds = s), in ticks
timedelta(s) == s * TicksPerSecond

\* ------------------------------------------------------------------------
\* Floating-point degrees, modelled exactly
\*
\* A float is the mixed number sg * (ip + fn / fd) with 0 <= fn < fd, kept in
\* lowest terms, so that equal numbers are equal records and no product
\* leaves the 32-bit range.
\* ------------------------------------------------------------------------
RECURSIVE GCD(_, _)
GCD(a, b) == IF b = 0 THEN a ELSE GCD(b, a % b)

LCM(a, b) == (a \div GCD(a, b)) * b

\* the non-negative rational n / d (d > 0) as a float
Frac(n, d) ==
    LET r == n % d
        g == GCD(r, d)
    IN  [sg |-> 1, ip |-> n \div d, fn |-> r \div g, fd |-> d \div g]

Float(i) == [sg |-> IF i < 0 THEN -1 ELSE 1, ip |-> Abs(i), fn |-> 0, fd |-> 1]

FNeg(x) == IF x.ip = 0 /\ x.fn = 0 THEN x ELSE [x EXCEPT !.sg = -x.sg]
FAbs(x) == [x EXCEPT !.sg = 1]
FIsNegative(x) == x.sg = -1 /\ (x.ip # 0 \/ x.fn # 0)

\* x + y for non-negative x and y
FAdd(x, y) ==
    LET l == LCM(x.fd, y.fd)
        n == x.fn * (l \div x.fd) + y.fn * (l \div y.fd)
        g == GCD(n % l, l)
    IN  [sg |-> 1, ip |-> x.ip + y.ip + (n \div l),
         fn |-> (n % l) \div g, fd |-> l \div g]

\* |x - y| <= 1 / inv, for non-negative x and y
FWithin(x, y, inv) ==
    LET l == LCM(x.fd, y.fd)
        a == x.fn * (l \div x.fd)
        b == y.fn * (l \div y.fd)
        eps == l \div inv
    IN  CASE x.ip = y.ip -> Abs(a - b) <= eps
          [] x.ip = y.ip + 1 -> (l - b) <= eps /\ (l - b) + a <= eps
          [] y.ip = x.ip + 1 -> (l - a) <= eps /\ (l - a) + b <= eps
          [] OTHER -> FALSE

\* ------------------------------------------------------------------------
\* EXIF values as Python hands them over
\*   [sh |-> "pair", n, d]   a 2-tuple (numerator, denominator)   (piexif)
\*   [sh |-> "rat", n, d]    an object with numerator/denominator (Pillow)
\*   [sh |-> "int", v]       a plain int
\*   [sh |-> "float", v]     a plain float
\*   [sh |-> "seq", items]   a tuple or list
\*   [sh |-> "str", s], [sh |-> "bytes", s]   text and encoded text
\* ------------------------------------------------------------------------
Pair(n, d) == [sh |-> "pair", n |-> n, d |-> d]
Rat(n, d) == [sh |-> "rat", n |-> n, d |-> d]
PyInt(v) == [sh |-> "int", v |-> v]
PyFloat(v) == [sh |-> "float", v |-> v]
Tuple(items) == [sh |-> "seq", items |-> items]
Str(s) == [sh |-> "str", s |-> s]
Bytes(s) == [sh |-> "bytes", s |-> s]

\* a raised exception, inside a function that catches it
Raised == [k |-> "raised"]

\* float(n) / float(d) of one element; Raised for TypeError, ZeroDivisionError
\* or AttributeError
PairQuotient(e) ==
    IF e.d = 0 THEN Raised ELSE Frac(e.n, e.d)

\* value[i].numerator / value[i].denominator: ints have both attributes,
\* floats and tuples have not
AttrQuotient(e) ==
    CASE e.sh = "rat" -> PairQuotient(e)
      [] e.sh = "int" -> Float(e.v)
      [] OTHER -> Raised

\* d + (m / 60.0) + (s / 3600.0)
DegreesSum(d, m, s) ==
    IF d = Raised \/ m = Raised \/ s = Raised THEN None
    ELSE LET m60 == Frac(m.ip * m.fd + m.fn, 60 * m.fd)
             s3600 == Frac(s.ip * s.fd + s.fn, 3600 * s.fd)
         IN  FAdd(FAdd(d, m60), s3600)

PlainNumber(e) == e.sh \in {"int", "float"}
PlainValue(e) == IF e.sh = "int" THEN Float(e.v) ELSE e.v

\* _convert_to_degrees (gps_checker.py 54-87): the decimal degrees of a
\* (degrees, minutes, seconds) value, None when it is malformed
_convert_to_degrees(value) ==
    IF value.sh # "seq" \/ Len(value.items) # 3 THEN None
    ELSE LET v == value.items
             first_element == v[1]
         IN  CASE first_element.sh = "pair" ->
                    IF ~(v[2].sh = "pair" /\ v[3].sh = "pair") THEN None
                    ELSE DegreesSum(PairQuotient(v[1]), PairQuotient(v[2]), PairQuotient(v[3]))
               [] PlainNumber(first_element) ->
                    IF ~(PlainNumber(v[2]) /\ PlainNumber(v[3])) THEN None
                    ELSE DegreesSum(PlainValue(v[1]), PlainValue(v[2]), PlainValue(v[3]))
               [] first_element.sh = "rat" ->
                    DegreesSum(AttrQuotient(v[1]), AttrQuotient(v[2]), AttrQuotient(v[3]))
               [] OTHER -> None

\* variant: the seconds are scaled by 1000 but stored over 10000
_deg_to_dms_rational_Scale(deg_float) ==
    LET a == FAbs(deg_float)
        deg == a.ip
        min_val == (a.fn * 60) \div a.fd
        min_rem == (a.fn * 60) % a.fd
    IN  Tuple(<<Pair(deg, 1), Pair(min_val, 1),
                Pair((min_rem * 60 * 1000) \div a.fd, 10000)>>)

\* _deg_to_dms_rational (gps_checker.py 112-119): abs, whole degrees, whole
\* minutes of the remainder, and int(seconds * 10000) over 10000
_deg_to_dms_rational(deg_float) ==
    LET a == FAbs(deg_float)
        deg == a.ip
        \* min_float = (deg_float - deg) * 60 is (a.fn * 60) / a.fd
        min_val == (a.fn * 60) \div a.fd
        \* sec_float = (min_float - min_val) * 60 is (min_rem * 60) / a.fd
        min_rem == (a.fn * 60) % a.fd
    IN  Tuple(<<Pair(deg, 1), Pair(min_val, 1),
                Pair((min_rem * 60 * 10000) \div a.fd, 10000)>>)

\* ------------------------------------------------------------------------
\* EXIF tag numbers
\* ------------------------------------------------------------------------
TagDateTime == 306
TagDateTimeOriginal == 36867
TagGPSInfo == 34853

GPSVersionID == 0
GPSLatitudeRef == 1
GPSLatitude == 2
GPSLongitudeRef == 3
GPSLongitude == 4
GPSAltitudeRef == 5
GPSAltitude == 6
GPSTimeStamp == 7
GPSDateStamp == 29
\* a GPS tag that cameras write and add_gps_to_image does not
GPSImgDirection == 17

\* PIL.ExifTags.GPSTAGS.get(tag_id, tag_id), for the tags of the model
GPSTAGS(id) ==
    CASE id = GPSVersionID -> "GPSVersionID"
      [] id = GPSLatitudeRef -> "GPSLatitudeRef"
      [] id = GPSLatitude -> "GPSLatitude"
      [] id = GPSLongitudeRef -> "GPSLongitudeRef"
      [] id = GPSLongitude -> "GPSLongitude"
      [] id = GPSAltitudeRef -> "GPSAltitudeRef"
      [] id = GPSAltitude -> "GPSAltitude"
      [] id = GPSTimeStamp -> "GPSTimeStamp"
      [] id = GPSDateStamp -> "GPSDateStamp"
      [] id = GPSImgDirection -> "GPSImgDirection"

\* PIL.ExifTags.TAGS.get(tag_id, tag_id) = 'GPSInfo'
IsGPSInfoTag(tag_id) == tag_id = TagGPSInfo

\* ------------------------------------------------------------------------
\* Python dicts: a dict is a function, its keys are its domain.
\* A dict held as a value is [sh |-> "dict", d |-> function].
\* EXIF data is None or [k |-> "dict", sec |-> ..., tag |-> ...]: sec holds the
\* string keys ('0th', 'Exif', 'GPS', '1st') and tag the integer keys, so the
\* structured tree of piexif.load has only sec and the flat dict of Pillow's
\* _getexif has only tag.
\* ------------------------------------------------------------------------
EmptyDict == <<>>
Dict(d) == [sh |-> "dict", d |-> d]
IsDict(v) == v.sh = "dict"
Get(d, key) == IF key \in DOMAIN d THEN d[key] ELSE None
ExifData(sec, tag) == [k |-> "dict", sec |-> sec, tag |-> tag]

\* Python truth value of a value held in a dict (or of a missing one)
ValueTruthy(v) ==
    IF v = None THEN FALSE
    ELSE CASE v.sh = "seq" -> Len(v.items) > 0
           [] v.sh = "dict" -> DOMAIN v.d # {}
           [] v.sh \in {"str", "bytes"} -> v.s # ""
           [] v.sh = "text" -> ~(v.fmt = "empty" /\ ~v.pad)
           [] v.sh = "int" -> v.v # 0
           [] OTHER -> TRUE

\* `not exif_data`
ExifFalsy(exif_data) ==
    exif_data = None \/ (DOMAIN exif_data.sec = {} /\ DOMAIN exif_data.tag = {})

\* A time text: fmt "exif" is 'YYYY:MM:DD HH:MM:SS' for second sec, "csv" is
\* 'YYYY-MM-DD HH:MM:SS', "junk" is any other text, "empty" is ''; pad says
\* whether blanks surround it; enc is "str" or "bytes".
TimeText(enc, fmt, sec, pad) ==
    [sh |-> "text", enc |-> enc, fmt |-> fmt, sec |-> sec, pad |-> pad]

\* datetime.strptime(text.strip(), '%Y:%m:%d %H:%M:%S'); Raised for ValueError
strptime_exif(text) ==
    IF text.sh = "text" /\ text.fmt = "exif" THEN Datetime(text.sec * TicksPerSecond)
    ELSE Raised

\* the GPS information dict: the tag names of gps_ifd_data mapped to its values
NamedGps(gps_ifd_data) ==
    [name \in {GPSTAGS(id) : id \in DOMAIN gps_ifd_data} |->
        gps_ifd_data[CHOOSE id \in DOMAIN gps_ifd_data : GPSTAGS(id) = name]]

\* the GPS IFD get_gps_info finds: exif_data['GPS'] when that key holds a
\* dict, else the value of the GPSInfo tag when it is a dict, else None
FindGpsIfd(exif_data) ==
    IF "GPS" \in DOMAIN exif_data.sec /\ IsDict(exif_data.sec["GPS"])
    THEN exif_data.sec["GPS"]
    ELSE IF \E tag_id \in DOMAIN exif_data.tag :
                IsGPSInfoTag(tag_id) /\ IsDict(exif_data.tag[tag_id])
         THEN exif_data.tag[TagGPSInfo]
         ELSE None

\* get_gps_info of gps_checker.py (159-186): None or the named GPS dict
get_gps_info(exif_data) ==
    IF ExifFalsy(exif_data) THEN None
    ELSE LET gps_ifd_data == FindGpsIfd(exif_data)
         IN  IF ValueTruthy(gps_ifd_data)
             THEN Dict(NamedGps(gps_ifd_data.d))
             ELSE None

required_tags == {"GPSLatitude", "GPSLatitudeRef", "GPSLongitude", "GPSLongitudeRef"}

\* get_gps_info of check_gps.py (42-79): as above, and None unless all four
\* required tags are present
check_gps_get_gps_info(exif_data) ==
    IF ExifFalsy(exif_data) THEN None
    ELSE LET gps_ifd_data == FindGpsIfd(exif_data)
         IN  IF ValueTruthy(gps_ifd_data)
             THEN LET gps_info_dict == NamedGps(gps_ifd_data.d)
                      has_all_required == \A tag \in required_tags : tag \in DOMAIN gps_info_dict
                  IN  IF ~has_all_required THEN None ELSE Dict(gps_info_dict)
             ELSE None

\* variant: the reference is compared without decoding bytes
DecodeRef_NoDecode(ref) == ref

\* ref.decode('utf-8') if isinstance(ref, bytes) else ref
DecodeRef(ref) == IF ref.sh = "bytes" THEN Str(ref.s) ELSE ref

\* variant: the reference is ignored, the coordinate is never negated
SignedDegrees_Unsigned(value, ref, pos) == _convert_to_degrees(value)

\* one coordinate of convert_gps_to_decimal: positive for reference `pos`
SignedDegrees(value, ref, pos) ==
    LET dec == _convert_to_degrees(value)
    IN  IF dec = None THEN None
        ELSE IF DecodeRef(ref) = Str(pos) THEN dec ELSE FNeg(dec)

\* convert_gps_to_decimal (gps_checker.py 90-109): <<lat, lon>>
convert_gps_to_decimal(gps_info) ==
    LET gps_latitude == Get(gps_info.d, "GPSLatitude")
        gps_latitude_ref == Get(gps_info.d, "GPSLatitudeRef")
        gps_longitude == Get(gps_info.d, "GPSLongitude")
        gps_longitude_ref == Get(gps_info.d, "GPSLongitudeRef")
    IN  IF ValueTruthy(gps_latitude) /\ ValueTruthy(gps_latitude_ref)
           /\ ValueTruthy(gps_longitude) /\ ValueTruthy(gps_longitude_ref)
        THEN <<SignedDegrees(gps_latitude, gps_latitude_ref, "N"),
               SignedDegrees(gps_longitude, gps_longitude_ref, "E")>>
        ELSE <<None, None>>

\* the text get_image_datetime selects
\* variant: the modification time is preferred to the original capture time
SelectedTimeText_ModifiedFirst(exif_data) ==
    IF "Exif" \in DOMAIN exif_data.sec /\ IsDict(exif_data.sec["Exif"])
    THEN LET modified == Get(exif_data.sec["0th"].d, TagDateTime)
         IN  IF ~ValueTruthy(modified)
             THEN Get(exif_data.sec["Exif"].d, TagDateTimeOriginal)
             ELSE modified
    ELSE IF ValueTruthy(Get(exif_data.tag, TagDateTime))
         THEN Get(exif_data.tag, TagDateTime)
         ELSE Get(exif_data.tag, TagDateTimeOriginal)

\* the text get_image_datetime parses: tag 36867, or tag 306 when 36867 is
\* missing or falsy (`not date_time_str`, `or`)
SelectedTimeText(exif_data) ==
    IF "Exif" \in DOMAIN exif_data.sec /\ IsDict(exif_data.sec["Exif"])
    THEN LET original == Get(exif_data.sec["Exif"].d, TagDateTimeOriginal)
         IN  IF ~ValueTruthy(original)
                /\ "0th" \in DOMAIN exif_data.sec /\ IsDict(exif_data.sec["0th"])
             THEN Get(exif_data.sec["0th"].d, TagDateTime)
             ELSE original
    ELSE IF ValueTruthy(Get(exif_data.tag, TagDateTimeOriginal))
         THEN Get(exif_data.tag, TagDateTimeOriginal)
         ELSE Get(exif_data.tag, TagDateTime)

\* get_image_datetime (gps_checker.py 189-213): the capture time or None
get_image_datetime(exif_data) ==
    IF ExifFalsy(exif_data) THEN None
    ELSE LET date_time_str == SelectedTimeText(exif_data)
         IN  IF ValueTruthy(date_time_str)
             THEN LET parsed == strptime_exif(date_time_str)
                  IN  IF parsed = Raised THEN None ELSE parsed
             ELSE None

\* ------------------------------------------------------------------------
\* Pillow's view of the metadata piexif parses into a tree: _getexif() merges
\* the tags of the 0th and Exif IFDs into one flat dict, holds a non-empty GPS
\* IFD as a dict under the GPSInfo tag, decodes text to str and hands
\* rationals over as objects with numerator and denominator.
\* ------------------------------------------------------------------------
RECURSIVE PilValue(_)
PilValue(v) ==
    CASE v.sh = "pair" -> Rat(v.n, v.d)
      [] v.sh = "bytes" -> Str(v.s)
      [] v.sh = "text" -> [v EXCEPT !.enc = "str"]
      [] v.sh = "seq" -> Tuple([i \in 1..Len(v.items) |-> PilValue(v.items[i])])
      [] v.sh = "dict" -> Dict([key \in DOMAIN v.d |-> PilValue(v.d[key])])
      [] OTHER -> v

SectionOf(tree, name) ==
    IF name \in DOMAIN tree.sec THEN tree.sec[name].d ELSE EmptyDict

PilView(tree) ==
    LET zeroth == SectionOf(tree, "0th")
        exif == SectionOf(tree, "Exif")
        gps == SectionOf(tree, "GPS")
        ids == DOMAIN zeroth \cup DOMAIN exif
                  \cup (IF DOMAIN gps # {} THEN {TagGPSInfo} ELSE {})
    IN  ExifData(EmptyDict,
                 [id \in ids |->
                    IF id = TagGPSInfo /\ DOMAIN gps # {} THEN PilValue(Dict(gps))
                    ELSE IF id \in DOMAIN exif THEN PilValue(exif[id])
                    ELSE PilValue(zeroth[id])])

\* ------------------------------------------------------------------------
\* find_closest_gps (gps_checker.py 350-377)
\* ------------------------------------------------------------------------
RECURSIVE bisect_left_from(_, _, _, _)
bisect_left_from(a, x, lo, hi) ==
    IF lo < hi
    THEN LET mid == (lo + hi) \div 2
         IN  IF a[mid + 1] < x
             THEN bisect_left_from(a, x, mid + 1, hi)
             ELSE bisect_left_from(a, x, lo, mid)
    ELSE lo

\* bisect.bisect_left(a, x): the 0-based insertion point of x in a
bisect_left(a, x) == bisect_left_from(a, x, 0, Len(a))

\* variant: the successor is forgotten: only gps_log[idx - 1] is a candidate
Candidates_PredecessorOnly(idx, n) ==
    IF idx > 0 THEN <<idx>> ELSE <<>>

\* the candidates list, as 1-based positions in the log: gps_log[idx - 1] is
\* position idx, gps_log[idx] is position idx + 1
Candidates(idx, n) ==
    (IF idx > 0 THEN <<idx>> ELSE <<>>) \o (IF idx < n THEN <<idx + 1>> ELSE <<>>)

\* variant: the comparison is diff <= min_diff, a later candidate wins a tie
ClosestStep_NonStrict(acc, pos, image_t, log) ==
    LET diff == Abs(image_t - log[pos].time)
    IN  IF diff <= acc.min_diff
        THEN [closest |-> pos, min_diff |-> diff]
        ELSE acc

\* one pass of the loop body: acc = [closest, min_diff]
ClosestStep(acc, pos, image_t, log) ==
    LET diff == Abs(image_t - log[pos].time)
    IN  IF diff < acc.min_diff
        THEN [closest |-> pos, min_diff |-> diff]
        ELSE acc

RECURSIVE ClosestLoop(_, _, _, _, _)
ClosestLoop(acc, cands, i, image_t, log) ==
    IF i > Len(cands) THEN acc
    ELSE ClosestLoop(ClosestStep(acc, cands[i], image_t, log), cands, i + 1, image_t, log)

\* variant: the tolerance bound is exclusive: min_diff < max_diff_allowed
closest_position_Exclusive(image_dt, gps_log, max_tolerance_seconds) ==
    IF ~Truthy(image_dt) \/ ~Truthy(gps_log) THEN 0
    ELSE LET log == gps_log.items
             gps_times == [i \in 1..Len(log) |-> log[i].time]
             idx == bisect_left(gps_times, image_dt.t)
             max_diff_allowed == timedelta(max_tolerance_seconds)
             acc0 == [closest |-> 0, min_diff |-> max_diff_allowed + timedelta(1)]
             acc == ClosestLoop(acc0, Candidates(idx, Len(log)), 1, image_dt.t, log)
         IN  IF acc.closest # 0 /\ acc.min_diff < max_diff_allowed
             THEN acc.closest
             ELSE 0

\* The position in the log of the point find_closest_gps returns, 0 for None
closest_position(image_dt, gps_log, max_tolerance_seconds) ==
    IF ~Truthy(image_dt) \/ ~Truthy(gps_log) THEN 0
    ELSE LET log == gps_log.items
             gps_times == [i \in 1..Len(log) |-> log[i].time]
             idx == bisect_left(gps_times, image_dt.t)
             max_diff_allowed == timedelta(max_tolerance_seconds)
             acc0 == [closest |-> 0, min_diff |-> max_diff_allowed + timedelta(1)]
             acc == ClosestLoop(acc0, Candidates(idx, Len(log)), 1, image_dt.t, log)
         IN  IF acc.closest # 0 /\ acc.min_diff <= max_diff_allowed
             THEN acc.closest
             ELSE 0

find_closest_gps(image_dt, gps_log, max_tolerance_seconds) ==
    LET pos == closest_position(image_dt, gps_log, max_tolerance_seconds)
    IN  IF pos = 0 THEN None ELSE gps_log.items[pos]

\* variant: the matched point is taken out of the log (gps_log.pop)
gps_log_after_Pop(image_dt, gps_log, max_tolerance_seconds) ==
    LET pos == closest_position(image_dt, gps_log, max_tolerance_seconds)
    IN  IF pos = 0 THEN gps_log
        ELSE List(SubSeq(gps_log.items, 1, pos - 1)
                  \o SubSeq(gps_log.items, pos + 1, Len(gps_log.items)))

\* the gps_log argument once find_closest_gps has returned: gps_times and
\* candidates are new lists, and no statement assigns to gps_log or to an
\* entry of it
gps_log_after(image_dt, gps_log, max_tolerance_seconds) == gps_log

\* ------------------------------------------------------------------------
\* Inputs of the lookup: time-sorted logs, query times, tolerances
\* ------------------------------------------------------------------------
LogTicks == (0..MaxTick) \cup {1000 * TicksPerSecond, 2000 * TicksPerSecond}
FindPoints == [time : LogTicks, lat : {Float(10), Float(-33)}, lon : {Float(20)}, alt : {Float(0)}]

IsSortedByTime(s) == \A i \in 1..(Len(s) - 1) : s[i].time <= s[i + 1].time

SortedLogs ==
    UNION {{s \in [1..n -> FindPoints] : IsSortedByTime(s)} : n \in 0..MaxLogLen}

\* capture times are whole seconds (EXIF text has no fraction)
QueryTimes ==
    {None} \cup {Datetime(s * TicksPerSecond) :
                    s \in (0..((MaxTick \div TicksPerSecond) + 1)) \cup {1300}}

Tolerances == {-1, 0, 1, 299, 300}

InitFind ==
    /\ call \in [fn : {"find_closest_gps"}, image_dt : QueryTimes,
                 gps_log : {None} \cup {List(s) : s \in SortedLogs},
                 tol : Tolerances]
    /\ ret = Pending
    /\ ScanIdle

ApplyFind ==
    /\ call.fn = "find_closest_gps"
    /\ ret = Pending
    /\ ret' = [k |-> "found",
               pos |-> closest_position(call.image_dt, call.gps_log, call.tol),
               point |-> find_closest_gps(call.image_dt, call.gps_log, call.tol)]
    /\ UNCHANGED <<call, scanVars>>

NextFind == ApplyFind

SpecFind == InitFind /\ [][NextFind]_vars

\* ------------------------------------------------------------------------
\* Inputs of the coordinate conversions: every decimal degree of the grid in
\* [-89.999, 89.999]
\* ------------------------------------------------------------------------
GridDegrees ==
    {IF neg THEN FNeg(Frac(n, DegGrid)) ELSE Frac(n, DegGrid) :
        n \in {m \in 0..(90 * DegGrid) : m * 1000 <= 89999 * DegGrid}, neg \in BOOLEAN}

InitCoord ==
    /\ call \in [fn : {"dms_round_trip"}, d : GridDegrees]
    /\ ret = Pending
    /\ ScanIdle

ApplyRoundTrip ==
    /\ call.fn = "dms_round_trip"
    /\ ret = Pending
    /\ ret' = [k |-> "dms",
               triple |-> _deg_to_dms_rational(call.d),
               back |-> _convert_to_degrees(_deg_to_dms_rational(call.d))]
    /\ UNCHANGED <<call, scanVars>>

NextCoord == ApplyRoundTrip

SpecCoord == InitCoord /\ [][NextCoord]_vars

\* ------------------------------------------------------------------------
\* Claims about the coordinate conversions
\* ------------------------------------------------------------------------
\* C10: for every decimal degree d in [-89.999, 89.999],
\* _convert_to_degrees(_deg_to_dms_rational(d)) equals |d| within 1e-4 degrees,
\* and the triple has whole degrees, minutes in 0..59 and a seconds numerator
\* in 0..599999 over the fixed denominator 10000.
C10_RoundTrip ==
    ret.k = "dms" =>
        /\ ret.triple.sh = "seq"
        /\ Len(ret.triple.items) = 3
        /\ \A i \in 1..3 : ret.triple.items[i].sh = "pair"
        /\ ret.triple.items[1].d = 1
        /\ ret.triple.items[2].d = 1
        /\ ret.triple.items[2].n \in 0..59
        /\ ret.triple.items[3].d = 10000
        /\ ret.triple.items[3].n \in 0..599999
        /\ ret.back # None
        /\ FWithin(ret.back, FAbs(call.d), 10000)

\* C10 witness: a negative degree whose seconds are truncated (the round trip
\* is not exact) and whose minutes are 59
C10_Witness ==
    /\ ret.k = "dms"
    /\ FIsNegative(call.d)
    /\ ret.triple.items[2].n = 59
    /\ ret.triple.items[3].n > 0
    /\ ret.back # FAbs(call.d)

\* ------------------------------------------------------------------------
\* Inputs of the metadata readers: the trees piexif.load returns for the files
\* of the model, and dicts that carry both shapes at once
\* ------------------------------------------------------------------------
\* the GPS IFD of a fix as piexif.load returns it (references as bytes)
StoredGps(lat_value, lat_ref, lon_value, lon_ref) ==
    (GPSVersionID :> Tuple(<<PyInt(2), PyInt(0), PyInt(0), PyInt(0)>>))
    @@ (GPSLatitudeRef :> Bytes(lat_ref))
    @@ (GPSLatitude :> lat_value)
    @@ (GPSLongitudeRef :> Bytes(lon_ref))
    @@ (GPSLongitude :> lon_value)
    @@ (GPSAltitude :> Pair(0, 100))

Restrict(f, keys) == [key \in (DOMAIN f \cap keys) |-> f[key]]

\* latitude values: 10.5 degrees, and a triple with a zero denominator
MetaLatValues ==
    {_deg_to_dms_rational(Frac(21, 2)),
     Tuple(<<Pair(10, 0), Pair(30, 1), Pair(0, 10000)>>)}

MetaLonValue == _deg_to_dms_rational(Frac(81, 4))

\* whole and partial GPS sections, the empty one included
MetaGpsSections ==
    {Restrict(StoredGps(lat, lat_ref, MetaLonValue, lon_ref), keys) :
        lat \in MetaLatValues, lat_ref \in {"N", "S"}, lon_ref \in {"E", "W"},
        keys \in SUBSET {GPSVersionID, GPSLatitudeRef, GPSLatitude,
                         GPSLongitudeRef, GPSLongitude}}

MetaSecond == 36000

MetaOriginalTexts ==
    {None, TimeText("bytes", "exif", MetaSecond, FALSE),
     TimeText("bytes", "exif", MetaSecond, TRUE),
     TimeText("bytes", "junk", 0, FALSE), TimeText("bytes", "empty", 0, FALSE),
     TimeText("bytes", "empty", 0, TRUE)}

MetaModifiedTexts ==
    {None, TimeText("bytes", "exif", MetaSecond + 60, FALSE),
     TimeText("bytes", "csv", MetaSecond + 60, FALSE)}

OptionalTag(id, v) == IF v = None THEN EmptyDict ELSE (id :> v)

\* the tree of piexif.load: the four sections are always there
Tree(gps, original, modified) ==
    ExifData([name \in {"0th", "Exif", "GPS", "1st"} |->
                 CASE name = "0th" -> Dict(OptionalTag(TagDateTime, modified))
                   [] name = "Exif" -> Dict(OptionalTag(TagDateTimeOriginal, original))
                   [] name = "GPS" -> Dict(gps)
                   [] OTHER -> Dict(EmptyDict)],
             EmptyDict)

MetaTrees ==
    {Tree(gps, original, modified) :
        gps \in MetaGpsSections, original \in MetaOriginalTexts,
        modified \in MetaModifiedTexts}

\* dicts with a GPSInfo tag and, or not, a 'GPS' key
MixedGps ==
    {EmptyDict, Restrict(StoredGps(MetaLonValue, "N", MetaLonValue, "E"), {GPSVersionID}),
     StoredGps(MetaLonValue, "S", MetaLonValue, "W")}

MixedDicts ==
    {ExifData(IF with_key THEN ("GPS" :> Dict(a)) ELSE ("Exif" :> Dict(EmptyDict)),
              TagGPSInfo :> Dict(b)) :
        a \in MixedGps, b \in MixedGps \ {EmptyDict}, with_key \in BOOLEAN}

\* what the pipeline reads off EXIF data: has-GPS, coordinates, capture time
Decode(exif_data) ==
    LET gps_info == get_gps_info(exif_data)
    IN  [has_gps |-> gps_info # None,
         latlon |-> IF gps_info # None THEN convert_gps_to_decimal(gps_info)
                    ELSE <<None, None>>,
         time |-> get_image_datetime(exif_data)]

InitMeta ==
    /\ call \in [fn : {"decode"}, tree : MetaTrees]
                  \cup [fn : {"decode_mixed"}, exif : MixedDicts]
    /\ ret = Pending
    /\ ScanIdle

ApplyDecode ==
    /\ call.fn = "decode"
    /\ ret = Pending
    /\ ret' = [k |-> "decoded",
               structured |-> Decode(call.tree),
               flat |-> Decode(PilView(call.tree)),
               check_structured |-> check_gps_get_gps_info(call.tree) # None,
               check_flat |-> check_gps_get_gps_info(PilView(call.tree)) # None]
    /\ UNCHANGED <<call, scanVars>>

ApplyDecodeMixed ==
    /\ call.fn = "decode_mixed"
    /\ ret = Pending
    /\ ret' = [k |-> "mixed", gps_info |-> get_gps_info(call.exif)]
    /\ UNCHANGED <<call, scanVars>>

NextMeta == ApplyDecode \/ ApplyDecodeMixed

SpecMeta == InitMeta /\ [][NextMeta]_vars

\* ------------------------------------------------------------------------
\* Claims about the metadata readers
\* ------------------------------------------------------------------------
FourTags == {GPSLatitude, GPSLatitudeRef, GPSLongitude, GPSLongitudeRef}

\* C6: a file is classified as having GPS only if its GPS section contains all
\* four of latitude, latitude reference, longitude and longitude reference, in
\* both dialects (the statement of the claim; get_gps_info of gps_checker.py
\* returns a dict for any non-empty GPS section).
C6_AllFourRequired ==
    ret.k = "decoded" =>
        LET whole == FourTags \subseteq DOMAIN SectionOf(call.tree, "GPS")
        IN  /\ ret.structured.has_gps => whole
            /\ ret.flat.has_gps => whole
            /\ ret.check_structured => whole
            /\ ret.check_flat => whole

\* C9: the structured tree and the flat dict of the same metadata decode to the
\* same has-GPS, the same latitude and longitude and the same capture time, and
\* a dict that has a 'GPS' key is read from that key, the GPSInfo tag being
\* read only when the key is missing.
C9_DialectEquivalence ==
    /\ ret.k = "decoded" => ret.structured = ret.flat
    /\ ret.k = "mixed" =>
          ret.gps_info =
              IF "GPS" \in DOMAIN call.exif.sec
              THEN (IF DOMAIN call.exif.sec["GPS"].d = {} THEN None
                    ELSE Dict(NamedGps(call.exif.sec["GPS"].d)))
              ELSE Dict(NamedGps(call.exif.tag[TagGPSInfo].d))

\* C9 witness: a whole southern/western fix with a capture time, decoded from
\* both dialects
C9_Witness ==
    /\ ret.k = "decoded"
    /\ ret.flat.has_gps
    /\ ret.flat.latlon[1] # None /\ FIsNegative(ret.flat.latlon[1])
    /\ ret.flat.latlon[2] # None /\ FIsNegative(ret.flat.latlon[2])
    /\ ret.structured.time = Datetime(MetaSecond * TicksPerSecond)

\* the two time tags as they were put into the tree that is decoded
TreeOriginal == Get(call.tree.sec["Exif"].d, TagDateTimeOriginal)
TreeModified == Get(call.tree.sec["0th"].d, TagDateTime)

\* the time a text stands for: the second it spells when it is, blanks apart,
\* 'YYYY:MM:DD HH:MM:SS', else nothing
TimeOfText(text) ==
    IF text # None /\ text.fmt = "exif" THEN Datetime(text.sec * TicksPerSecond)
    ELSE None

\* C24 as stated: get_image_datetime reads tag 36867 whenever it is present
\* and tag 306 otherwise, in both dialects, and a selected text that is not
\* 'YYYY:MM:DD HH:MM:SS' gives None.
C24_OriginalWhenPresent ==
    ret.k = "decoded" =>
        LET selected == IF TreeOriginal # None THEN TreeOriginal ELSE TreeModified
        IN  /\ ret.structured.time = TimeOfText(selected)
            /\ ret.flat.time = TimeOfText(selected)

\* C24 amended: get_image_datetime reads tag 36867 when it is present and not
\* empty and tag 306 otherwise, in both dialects, and a selected text that is
\* not 'YYYY:MM:DD HH:MM:SS' gives None, nothing being raised.
C24_OriginalWhenNotEmpty ==
    ret.k = "decoded" =>
        LET selected == IF TreeOriginal # None
                           /\ ~(TreeOriginal.fmt = "empty" /\ ~TreeOriginal.pad)
                        THEN TreeOriginal ELSE TreeModified
        IN  /\ ret.structured.time = TimeOfText(selected)
            /\ ret.flat.time = TimeOfText(selected)

\* C24 witness: both tags hold a well-formed time and the original one is read
C24_Witness ==
    /\ ret.k = "decoded"
    /\ TimeOfText(TreeOriginal) # None
    /\ TimeOfText(TreeModified) # None
    /\ TimeOfText(TreeModified) # TimeOfText(TreeOriginal)
    /\ ret.structured.time = TimeOfText(TreeOriginal)
    /\ ret.flat.time = TimeOfText(TreeOriginal)

\* ------------------------------------------------------------------------
\* Claims about find_closest_gps
\* ------------------------------------------------------------------------
\* the insertion point of t in a time-sorted log, stated without the search:
\* the number of points strictly before t
InsertionPoint(log, t) == Cardinality({i \in 1..Len(log) : log[i].time < t})

\* the positions adjacent to the insertion point
Adjacent(log, t) == {InsertionPoint(log, t), InsertionPoint(log, t) + 1} \cap (1..Len(log))

TimeDiff(log, i, t) == Abs(t - log[i].time)

\* C1: for every time-sorted log, query time and tolerance, find_closest_gps
\* returns the nearer of the two points adjacent to the insertion point if and
\* only if that point's absolute time difference is <= the tolerance, and None
\* in every other case (empty or missing log, missing query time included).
C1_NearerWithinTolerance ==
    ret.k = "found" =>
        IF call.image_dt = None \/ call.gps_log = None \/ call.gps_log.items = <<>>
        THEN ret.pos = 0 /\ ret.point = None
        ELSE LET log == call.gps_log.items
                 t == call.image_dt.t
                 adj == Adjacent(log, t)
                 nearest == {i \in adj : \A j \in adj : TimeDiff(log, i, t) <= TimeDiff(log, j, t)}
                 within == \E i \in nearest : TimeDiff(log, i, t) <= call.tol * TicksPerSecond
             IN  IF within
                 THEN ret.pos \in nearest /\ ret.point = log[ret.pos]
                 ELSE ret.pos = 0 /\ ret.point = None

\* C1 witness: a lookup between two points that returns the successor, the
\* predecessor being strictly farther away
C1_Witness ==
    /\ ret.k = "found"
    /\ ret.pos >= 2
    /\ ret.pos = InsertionPoint(call.gps_log.items, call.image_dt.t) + 1
    /\ TimeDiff(call.gps_log.items, ret.pos, call.image_dt.t) > 0
    /\ TimeDiff(call.gps_log.items, ret.pos - 1, call.image_dt.t)
          > TimeDiff(call.gps_log.items, ret.pos, call.image_dt.t)

\* the boundary case of the claim: points at t=1000 and t=2000, query t=1300
BoundaryCase ==
    /\ call.fn = "find_closest_gps"
    /\ call.gps_log # None
    /\ Len(call.gps_log.items) = 2
    /\ call.gps_log.items[1].time = 1000 * TicksPerSecond
    /\ call.gps_log.items[2].time = 2000 * TicksPerSecond
    /\ call.image_dt = Datetime(1300 * TicksPerSecond)

\* C2: the tolerance bound is inclusive: with points at t=1000 and t=2000, a
\* query at t=1300 with tolerance 300 returns the t=1000 point, and with
\* tolerance 299 returns None.
C2_InclusiveBoundary ==
    (ret.k = "found" /\ BoundaryCase) =>
        /\ call.tol = 300 => ret.point = call.gps_log.items[1]
        /\ call.tol = 299 => ret.point = None

\* C2 witness: the boundary query answered with the t=1000 point at tolerance 300
C2_Witness ==
    /\ ret.k = "found"
    /\ BoundaryCase
    /\ call.tol = 300
    /\ ret.point # None
    /\ ret.point.time = 1000 * TicksPerSecond

\* the lookup has a predecessor and a successor candidate at the same distance
\* from the query, within the tolerance
Tie ==
    /\ ret.k = "found"
    /\ call.image_dt # None /\ call.gps_log # None
    /\ LET log == call.gps_log.items
           t == call.image_dt.t
           idx == InsertionPoint(log, t)
       IN  /\ idx >= 1 /\ idx < Len(log)
           /\ TimeDiff(log, idx, t) = TimeDiff(log, idx + 1, t)
           /\ TimeDiff(log, idx, t) <= call.tol * TicksPerSecond

\* C21 as stated: on a tie within tolerance find_closest_gps returns the
\* candidate evaluated second, the successor.
C21_TieSuccessor ==
    Tie => ret.pos = InsertionPoint(call.gps_log.items, call.image_dt.t) + 1

\* C21 as amended: on a tie within tolerance find_closest_gps returns the
\* candidate evaluated first, the predecessor (the comparison is the strict
\* diff < min_diff, which an equal difference does not pass).
C21_TiePredecessor ==
    Tie => /\ ret.pos = InsertionPoint(call.gps_log.items, call.image_dt.t)
           /\ ret.point = call.gps_log.items[ret.pos]

\* C21 witness: a tie between two points of different latitude, answered with
\* the predecessor
C21_Witness ==
    /\ Tie
    /\ ret.pos = InsertionPoint(call.gps_log.items, call.image_dt.t)
    /\ call.gps_log.items[ret.pos].lat # call.gps_log.items[ret.pos + 1].lat
    /\ ret.point.lat = call.gps_log.items[ret.pos].lat

\* C26: in a log sorted ascending by time the point find_closest_gps returns
\* is a globally nearest one: no point of the log is strictly nearer to the
\* query, and None is returned only when every point of the log is farther
\* than the tolerance, duplicate timestamps included.
C26_GloballyNearest ==
    (ret.k = "found" /\ call.image_dt # None /\ call.gps_log # None) =>
        LET log == call.gps_log.items
            t == call.image_dt.t
        IN  IF ret.point # None
            THEN /\ ret.pos \in 1..Len(log)
                 /\ ret.point = log[ret.pos]
                 /\ \A j \in 1..Len(log) : TimeDiff(log, j, t) >= TimeDiff(log, ret.pos, t)
            ELSE \A j \in 1..Len(log) : TimeDiff(log, j, t) > call.tol * TicksPerSecond

\* C26 witness: a log of three points, two of them with the same timestamp,
\* where the returned point is strictly nearer than a point that is not next
\* to the insertion point
C26_Witness ==
    /\ ret.k = "found"
    /\ ret.point # None
    /\ Len(call.gps_log.items) = 3
    /\ \E i \in 1..2 : call.gps_log.items[i].time = call.gps_log.items[i + 1].time
    /\ \E j \in (1..3) \ Adjacent(call.gps_log.items, call.image_dt.t) :
          TimeDiff(call.gps_log.items, j, call.image_dt.t)
              > TimeDiff(call.gps_log.items, ret.pos, call.image_dt.t)

\* ------------------------------------------------------------------------
\* Image files
\*
\* The content of a file is [kind, tree]: tree is the metadata its EXIF blob
\* encodes, and kind says what the libraries make of the file:
\*   "image"       Image.open succeeds and piexif.load parses the blob
\*   "pil_only"    piexif.load raises on the blob, Pillow's _getexif reads it
\*   "unreadable"  Image.open raises (a corrupt file)
\*   "truncated"   what an interrupted in-place save leaves behind
\* ------------------------------------------------------------------------
Content(kind, tree) == [kind |-> kind, tree |-> tree]

\* variant: a file that cannot be opened yields the metadata of its blob
get_exif_data_Unguarded(content, io_error) ==
    IF content.kind = "pil_only"
    THEN LET pil_exif_data == PilView(content.tree)
         IN  IF ExifFalsy(pil_exif_data) THEN None ELSE pil_exif_data
    ELSE content.tree

\* get_exif_data (gps_checker.py 126-156); io_error says whether opening or
\* loading the file raises this time
get_exif_data(content, io_error) ==
    IF io_error \/ content.kind \in {"unreadable", "truncated"} THEN None
    ELSE IF content.kind = "image" THEN content.tree
    ELSE LET pil_exif_data == PilView(content.tree)
         IN  IF ExifFalsy(pil_exif_data) THEN None ELSE pil_exif_data

\* the fields of a datetime, from its ticks
SecondsOf(t) == t \div TicksPerSecond
HourOf(t) == (SecondsOf(t) \div 3600) % 24
MinuteOf(t) == (SecondsOf(t) \div 60) % 60
SecondOf(t) == SecondsOf(t) % 60
\* timestamp_dt.strftime('%Y:%m:%d'): the text of the day
DateStamp(t) == [sh |-> "text", enc |-> "str", fmt |-> "date",
                 sec |-> SecondsOf(t) \div 86400, pad |-> FALSE]

\* int(abs(alt) * 100)
AltitudeCentimetres(alt) == alt.ip * 100 + ((alt.fn * 100) \div alt.fd)

\* the gps_ifd dict add_gps_to_image builds (gps_checker.py 219-237)
gps_ifd(lat, lon, alt, timestamp_dt) ==
    LET lat_ref == IF ~FIsNegative(lat) THEN "N" ELSE "S"
        lon_ref == IF ~FIsNegative(lon) THEN "E" ELSE "W"
        base == (GPSVersionID :> Tuple(<<PyInt(2), PyInt(0), PyInt(0), PyInt(0)>>))
                @@ (GPSLatitudeRef :> Str(lat_ref))
                @@ (GPSLatitude :> _deg_to_dms_rational(lat))
                @@ (GPSLongitudeRef :> Str(lon_ref))
                @@ (GPSLongitude :> _deg_to_dms_rational(lon))
                @@ (GPSAltitudeRef :> PyInt(0))
                @@ (GPSAltitude :> Pair(AltitudeCentimetres(alt), 100))
    IN  IF Truthy(timestamp_dt)
        THEN base
             @@ (GPSTimeStamp :> Tuple(<<Pair(HourOf(timestamp_dt.t), 1),
                                         Pair(MinuteOf(timestamp_dt.t), 1),
                                         Pair(SecondOf(timestamp_dt.t), 1)>>))
             @@ (GPSDateStamp :> DateStamp(timestamp_dt.t))
        ELSE base

\* a value as piexif.load returns it once piexif.dump has written it: text
\* comes back as bytes
StoredValue(v) ==
    CASE v.sh = "str" -> Bytes(v.s)
      [] v.sh = "text" -> [v EXCEPT !.enc = "bytes"]
      [] OTHER -> v

StoredIfd(ifd) == [id \in DOMAIN ifd |-> StoredValue(ifd[id])]

\* variant: the new tags are merged into the existing GPS section
ReplaceGps_Merge(exif_dict, ifd) ==
    [exif_dict EXCEPT !.sec["GPS"] = Dict(ifd @@ exif_dict.sec["GPS"].d)]

\* exif_dict['GPS'] = gps_ifd
ReplaceGps(exif_dict, ifd) ==
    [exif_dict EXCEPT !.sec["GPS"] = Dict(ifd)]

\* how a call of add_gps_to_image on a file can end: "ok"; "load_error"
\* (Image.open or piexif.load raises); "dump_error" (piexif.dump raises);
\* "save_error" (img.save raises before it opens the file for writing);
\* "save_truncated" (img.save raises after it has opened the file for writing)
WriteOutcomes(content) ==
    IF content.kind = "image"
    THEN {"ok", "dump_error", "save_error", "save_truncated"}
    ELSE {"load_error"}

\* add_gps_to_image (gps_checker.py 216-251): <<returned value, file content>>
add_gps_to_image(content, lat, lon, alt, timestamp_dt, outcome) ==
    LET ifd == gps_ifd(lat, lon, alt, timestamp_dt)
    IN  CASE outcome = "ok" ->
                <<TRUE, Content("image", ReplaceGps(content.tree, StoredIfd(ifd)))>>
          [] outcome = "save_truncated" ->
                <<FALSE, Content("truncated", Tree(EmptyDict, None, None))>>
          [] OTHER -> <<FALSE, content>>

\* ------------------------------------------------------------------------
\* process_single_image (gps_checker.py 384-443), one step per I/O operation.
\* The status line is the sequence of its notes.
\* ------------------------------------------------------------------------
DEFAULT_TOLERANCE_SECONDS == 300

NewTask ==
    [pc |-> "Unprocessed", exif_data |-> None, gps_info_current |-> None,
     has_gps |-> FALSE, added_gps |-> FALSE, moved_file |-> FALSE,
     status |-> <<>>, closest_data |-> None,
     write |-> "none", before |-> None, makedirs |-> "none", result |-> None]

\* lines 386-390: read the metadata
StepRead(t, content, io_error) ==
    LET exif_data == get_exif_data(content, io_error)
        gps_info_current == get_gps_info(exif_data)
    IN  [t EXCEPT !.pc = "GpsChecked", !.exif_data = exif_data,
                  !.gps_info_current = gps_info_current,
                  !.has_gps = gps_info_current # None]

\* variant: the guard of line 395 without the has_gps test
WantsGps_AnyFile(t, cfg) == Truthy(cfg.gps_log)

\* line 395: gps_log and (not has_gps or overwrite_gps)
WantsGps(t, cfg) == Truthy(cfg.gps_log) /\ (~t.has_gps \/ cfg.overwrite_gps)

\* lines 395-398, 411-414: look the capture time up in the log
StepMatch(t, cfg) ==
    IF WantsGps(t, cfg)
    THEN LET img_time == get_image_datetime(t.exif_data)
         IN  IF Truthy(img_time)
             THEN LET closest_data == find_closest_gps(img_time, cfg.gps_log, cfg.time_tolerance)
                  IN  IF closest_data # None
                      THEN [t EXCEPT !.pc = "GpsAttempted", !.closest_data = closest_data]
                      ELSE [t EXCEPT !.pc = "GpsSkipped",
                                     !.status = IF ~t.has_gps THEN <<"[no_match]">> ELSE <<>>]
             ELSE [t EXCEPT !.pc = "GpsSkipped",
                            !.status = IF ~t.has_gps THEN <<"[no_time]">> ELSE <<>>]
    ELSE [t EXCEPT !.pc = "GpsSkipped"]

\* lines 417-427: the note of the final classification
StepClassify(t) ==
    IF t.has_gps /\ t.gps_info_current # None
    THEN [t EXCEPT !.pc = "FinalClassified", !.status = @ \o <<"has_gps">>]
    ELSE [t EXCEPT !.pc = "FinalClassified",
                   !.status = IF \E i \in 1..Len(@) : @[i] \in {"[no_match]", "[no_time]", "[add_failed]"}
                              THEN @ ELSE @ \o <<"no_gps">>]

\* variant: added_gps is set before add_gps_to_image has returned
StepWrite_AddedEarly(t, content, outcome) ==
    LET c == t.closest_data
        done == add_gps_to_image(content, c.lat, c.lon, c.alt, Datetime(c.time), outcome)
    IN  IF done[1]
        THEN <<[t EXCEPT !.pc = "GpsWritten", !.added_gps = TRUE,
                         !.write = "ok", !.before = content], done[2]>>
        ELSE <<StepClassify([t EXCEPT !.status = @ \o <<"[add_failed]">>,
                                      !.added_gps = TRUE,
                                      !.write = "failed", !.before = content]), done[2]>>

\* lines 400-410: the write; <<task, file content>>
StepWrite(t, content, outcome) ==
    LET c == t.closest_data
        done == add_gps_to_image(content, c.lat, c.lon, c.alt, Datetime(c.time), outcome)
    IN  IF done[1]
        THEN <<[t EXCEPT !.pc = "GpsWritten", !.added_gps = TRUE,
                         !.write = "ok", !.before = content], done[2]>>
        ELSE <<StepClassify([t EXCEPT !.status = @ \o <<"[add_failed]">>,
                                      !.write = "failed", !.before = content]), done[2]>>

\* variant: after the write the file is taken through the check again
StepReRead_Recheck(t, content, io_error) ==
    LET exif_data == get_exif_data(content, io_error)
    IN  [t EXCEPT !.pc = "GpsChecked", !.exif_data = exif_data,
                  !.gps_info_current = get_gps_info(exif_data),
                  !.has_gps = TRUE]

\* lines 406-408: read the file again after the write
StepReRead(t, content, io_error) ==
    LET exif_data == get_exif_data(content, io_error)
    IN  StepClassify([t EXCEPT !.exif_data = exif_data,
                               !.gps_info_current = get_gps_info(exif_data),
                               !.has_gps = TRUE])

\* variant: every file is moved when moving is requested
WantsMove_Always(t, cfg) == cfg.move_nogps

\* line 429: whether the file is to be moved
WantsMove(t, cfg) == ~(t.has_gps /\ t.gps_info_current # None) /\ cfg.move_nogps

ResultOf(filename, t) ==
    [filename |-> filename, status |-> t.status, has_gps |-> t.has_gps,
     added |-> t.added_gps, moved |-> t.moved_file]

\* variant: moved_file is set before os.rename has succeeded
StepFinish_MovedEarly(filename, t, cfg, move_ok) ==
    LET moved == IF ~WantsMove(t, cfg) THEN [t EXCEPT !.pc = "Left"]
                 ELSE IF move_ok
                      THEN [t EXCEPT !.pc = "MovedIfNoGps", !.moved_file = TRUE,
                                     !.status = @ \o <<"moved">>]
                      ELSE [t EXCEPT !.pc = "Left", !.moved_file = TRUE,
                                     !.status = @ \o <<"move_failed">>]
    IN  [moved EXCEPT !.result = ResultOf(filename, moved)]

\* lines 429-443: the move, if any, and the returned result
StepFinish(filename, t, cfg, move_ok) ==
    LET moved == IF ~WantsMove(t, cfg) THEN [t EXCEPT !.pc = "Left"]
                 ELSE IF move_ok
                      THEN [t EXCEPT !.pc = "MovedIfNoGps", !.moved_file = TRUE,
                                     !.status = @ \o <<"moved">>]
                      ELSE [t EXCEPT !.pc = "Left", !.status = @ \o <<"move_failed">>]
    IN  [moved EXCEPT !.result = ResultOf(filename, moved)]

\* variant: os.makedirs without exist_ok: an existing directory raises
makedirs_Exclusive(dir, exist_ok) ==
    IF dir = "absent" THEN [dir |-> "dir", raised |-> FALSE]
    ELSE [dir |-> dir, raised |-> TRUE]

\* os.makedirs(nogps_folder_path, exist_ok) (line 433), the folder itself being
\* there: one mkdir, which creates the directory or fails because the name
\* exists; FileExistsError is swallowed when exist_ok and the name is a
\* directory
makedirs(dir, exist_ok) ==
    IF dir = "absent" THEN [dir |-> "dir", raised |-> FALSE]
    ELSE [dir |-> dir, raised |-> ~(exist_ok /\ dir = "dir")]

\* the result the loop of scan_images records for a future that raised
FailedResult(filename) ==
    [filename |-> filename, status |-> <<"[failed]">>, has_gps |-> FALSE,
     added |-> FALSE, moved |-> FALSE]

\* ------------------------------------------------------------------------
\* scan_images (gps_checker.py 451-520): the files, the worker pool, the
\* as_completed loop and the summary
\* ------------------------------------------------------------------------
NumFiles == 2
Files == 1..NumFiles

\* lines 466-471: the eligible files of the folder and their number
image_files == DOMAIN task
total == Cardinality(image_files)

\* scan_images has returned
Returned == [k |-> "returned"]

\* the capture times of the files and the time of the track point
CaptureSecond == MetaSecond
FarSecond == 32400
PointSecond == 36120

\* the GPS section of a file that came with a fix (33.5 S, 20.25 E) and with
\* a tag the writer does not set
OldGps ==
    StoredGps(_deg_to_dms_rational(Frac(67, 2)), "S", MetaLonValue, "E")
    @@ (GPSImgDirection :> Pair(90, 1))

VersionOnlyGps == Restrict(OldGps, {GPSVersionID})

CaptureText(sec) == TimeText("bytes", "exif", sec, FALSE)

InitialContents ==
    {Content("image", Tree(OldGps, CaptureText(CaptureSecond), None)),
     Content("image", Tree(OldGps, CaptureText(FarSecond), None)),
     Content("image", Tree(OldGps, None, None)),
     Content("image", Tree(VersionOnlyGps, CaptureText(CaptureSecond), None)),
     Content("image", Tree(EmptyDict, CaptureText(CaptureSecond), None)),
     Content("image", Tree(EmptyDict, CaptureText(FarSecond), None)),
     Content("image", Tree(EmptyDict, None, None)),
     Content("pil_only", Tree(EmptyDict, CaptureText(CaptureSecond), None)),
     Content("unreadable", Tree(EmptyDict, CaptureText(CaptureSecond), None))}

TrackLog ==
    List(<<[time |-> PointSecond * TicksPerSecond, lat |-> Float(10),
            lon |-> Float(20), alt |-> Float(0)]>>)

\* ------------------------------------------------------------------------
\* load_gps_csv (gps_checker.py 259-347). A CSV file is
\*   [k |-> "missing"]     no file at the path, or reading it raises
\*   [k |-> "empty"]       no header line (StopIteration)
\*   [k |-> "csv", rows]   a header and rows; a row is a point
\*                         [k |-> "row", time, lat, lon, alt], or
\*                         [k |-> "bad"], a short row or one with a cell that
\*                         does not parse (skipped), or [k |-> "overflow"], a
\*                         row whose epoch value datetime.fromtimestamp
\*                         rejects with OverflowError, which only the outer
\*                         handler catches
\* ------------------------------------------------------------------------
CsvMissing == [k |-> "missing"]
CsvEmpty == [k |-> "empty"]
Csv(rows) == [k |-> "csv", rows |-> rows]
CsvRow(time, lat, lon, alt) ==
    [k |-> "row", time |-> time, lat |-> lat, lon |-> lon, alt |-> alt]
BadRow == [k |-> "bad"]
OverflowRow == [k |-> "overflow"]

\* the file is read to its end: no exception reaches the outer handler
Loadable(csv) ==
    csv.k = "csv" /\ \A i \in 1..Len(csv.rows) : csv.rows[i].k # "overflow"

\* lines 307-330: the points appended to gps_data, in file order
RECURSIVE ParsedRows(_)
ParsedRows(rows) ==
    IF rows = <<>> THEN <<>>
    ELSE LET row == Head(rows)
         IN  (IF row.k = "row"
              THEN <<[time |-> row.time, lat |-> row.lat, lon |-> row.lon, alt |-> row.alt]>>
              ELSE <<>>) \o ParsedRows(Tail(rows))

\* insert a point after every point whose time is not later
RECURSIVE InsertByTime(_, _)
InsertByTime(sorted, point) ==
    IF sorted = <<>> THEN <<point>>
    ELSE IF Head(sorted).time <= point.time
         THEN <<Head(sorted)>> \o InsertByTime(Tail(sorted), point)
         ELSE <<point>> \o sorted

\* gps_data.sort(key=lambda x: x['time']): a stable sort
RECURSIVE SortByTime(_)
SortByTime(points) ==
    IF points = <<>> THEN <<>>
    ELSE InsertByTime(SortByTime(SubSeq(points, 1, Len(points) - 1)), points[Len(points)])

\* variant: a log that cannot be loaded is replaced by a built-in track
load_gps_csv_Fallback(csv) ==
    IF Loadable(csv) THEN List(SortByTime(ParsedRows(csv.rows))) ELSE TrackLog

\* variant: gps_data is returned as appended, without the sort
load_gps_csv_Unsorted(csv) ==
    IF Loadable(csv) THEN List(ParsedRows(csv.rows)) ELSE None

load_gps_csv(csv) ==
    IF Loadable(csv) THEN List(SortByTime(ParsedRows(csv.rows))) ELSE None

\* the CSV file of the track: a row that does not parse and the point
TrackCsv ==
    Csv(<<BadRow, CsvRow(PointSecond * TicksPerSecond, Float(10), Float(20), Float(0))>>)

\* the values of gps_csv_path: no path, and the files a path can lead to
CsvPaths == {None, CsvMissing, CsvEmpty, TrackCsv}

\* lines 460-464: gps_log is None without a path, else what load_gps_csv returns
LoadedLog(gps_csv_path) ==
    IF gps_csv_path = None THEN None ELSE load_gps_csv(gps_csv_path)

Configs ==
    {[gps_csv_path |-> path, gps_log |-> LoadedLog(path), overwrite_gps |-> overwrite,
      move_nogps |-> move, time_tolerance |-> DEFAULT_TOLERANCE_SECONDS] :
        path \in CsvPaths, overwrite \in BOOLEAN, move \in BOOLEAN}

\* the holding directory _nogps_ when the run starts: not there yet, or left
\* by an earlier run
HoldingDirs == {"absent", "dir"}

\* the state once the log is loaded and every file is submitted to the pool
Init ==
    /\ call = [fn |-> "scan_images"]
    /\ ret = Pending
    /\ config \in Configs
    /\ at_start \in UNION {[1..n -> InitialContents] : n \in 0..NumFiles}
    /\ disk = at_start
    /\ place = [f \in DOMAIN at_start |-> "folder"]
    /\ task = [f \in DOMAIN at_start |-> NewTask]
    /\ collected = {}
    /\ results = <<>>
    /\ summary = None
    /\ holding_dir \in HoldingDirs

Running(f) == task[f].pc \notin {"MovedIfNoGps", "Left", "Raised"}

Read(f) ==
    /\ task[f].pc = "Unprocessed"
    /\ task' = [task EXCEPT ![f] = StepRead(@, disk[f], FALSE)]
    /\ UNCHANGED <<pureVars, config, at_start, disk, place, collected, results, summary,
                 holding_dir>>

Match(f) ==
    /\ task[f].pc = "GpsChecked"
    /\ task' = [task EXCEPT ![f] = StepMatch(@, config)]
    /\ config' = IF WantsGps(task[f], config)
                    /\ Truthy(get_image_datetime(task[f].exif_data))
                 THEN [config EXCEPT !.gps_log =
                          gps_log_after(get_image_datetime(task[f].exif_data), @,
                                        config.time_tolerance)]
                 ELSE config
    /\ UNCHANGED <<pureVars, at_start, disk, place, collected, results, summary,
                 holding_dir>>

Write(f) ==
    /\ task[f].pc = "GpsAttempted"
    /\ \E outcome \in WriteOutcomes(disk[f]) :
          LET done == StepWrite(task[f], disk[f], outcome)
          IN  /\ task' = [task EXCEPT ![f] = done[1]]
              /\ disk' = [disk EXCEPT ![f] = done[2]]
    /\ UNCHANGED <<pureVars, config, at_start, place, collected, results, summary,
                 holding_dir>>

ReRead(f) ==
    /\ task[f].pc = "GpsWritten"
    /\ \E io_error \in BOOLEAN :
          task' = [task EXCEPT ![f] = StepReRead(@, disk[f], io_error)]
    /\ UNCHANGED <<pureVars, config, at_start, disk, place, collected, results, summary,
                 holding_dir>>

Classify(f) ==
    /\ task[f].pc = "GpsSkipped"
    /\ task' = [task EXCEPT ![f] = StepClassify(@)]
    /\ UNCHANGED <<pureVars, config, at_start, disk, place, collected, results, summary,
                 holding_dir>>

\* lines 429-433: a worker that is to move its file makes sure of the holding
\* directory first
MakeDirs(f) ==
    /\ task[f].pc = "FinalClassified"
    /\ WantsMove(task[f], config)
    /\ task[f].makedirs = "none"
    /\ LET made == makedirs(holding_dir, TRUE)
       IN  /\ holding_dir' = made.dir
           /\ task' = [task EXCEPT ![f].makedirs = IF made.raised THEN "raised" ELSE "ok"]
    /\ UNCHANGED <<pureVars, config, at_start, disk, place, collected, results, summary>>

\* lines 434-443: os.rename, which is reached when os.makedirs did not raise
\* and may fail itself, and the return
Finish(f) ==
    /\ task[f].pc = "FinalClassified"
    /\ WantsMove(task[f], config) => task[f].makedirs # "none"
    /\ \E rename_ok \in BOOLEAN :
          LET move_ok == task[f].makedirs = "ok" /\ rename_ok
          IN  /\ task' = [task EXCEPT ![f] = StepFinish(f, @, config, move_ok)]
              /\ place' = [place EXCEPT ![f] = IF WantsMove(task[f], config) /\ move_ok
                                               THEN "holding" ELSE @]
    /\ UNCHANGED <<pureVars, config, at_start, disk, collected, results, summary,
                 holding_dir>>

\* an exception escapes process_single_image
Raise(f) ==
    /\ Running(f)
    /\ task' = [task EXCEPT ![f].pc = "Raised"]
    /\ UNCHANGED <<pureVars, config, at_start, disk, place, collected, results, summary,
                 holding_dir>>

\* variant: a future that raised leaves no result
CollectedResult_DropFailed(f) ==
    IF task[f].pc = "Raised" THEN <<>> ELSE <<task[f].result>>

\* lines 496-502: what the loop appends for a finished future
CollectedResult(f) ==
    IF task[f].pc = "Raised" THEN <<FailedResult(f)>> ELSE <<task[f].result>>

\* one pass of the as_completed loop
Collect(f) ==
    /\ ~Running(f)
    /\ f \notin collected
    /\ collected' = collected \cup {f}
    /\ results' = results \o CollectedResult(f)
    /\ UNCHANGED <<pureVars, config, at_start, disk, place, task, summary,
                 holding_dir>>

count_gps == Cardinality({i \in 1..Len(results) : results[i].has_gps})
\* variant: results[i] is taken for the result of the i-th file
count_added_InputOrder ==
    Cardinality({i \in 1..Len(results) : results[i].added /\ results[i].filename = i})

count_added == Cardinality({i \in 1..Len(results) : results[i].added})
count_moved == Cardinality({i \in 1..Len(results) : results[i].moved})

\* lines 472-475: no eligible file, scan_images returns at once
ReturnEmpty ==
    /\ total = 0
    /\ ret = Pending
    /\ ret' = Returned
    /\ UNCHANGED <<call, scanVars>>

\* lines 504-520: the counts, printed as the summary
Summarize ==
    /\ total # 0
    /\ collected = image_files
    /\ summary = None
    /\ summary' = [total |-> total,
                   count_gps |-> count_gps,
                   count_added |-> count_added,
                   count_moved |-> count_moved,
                   count_nogps_final |-> total - count_gps]
    /\ ret' = Returned
    /\ UNCHANGED <<call, config, at_start, disk, place, task, collected, results,
                 holding_dir>>

Next ==
    \/ \E f \in image_files : Read(f)
    \/ \E f \in image_files : Match(f)
    \/ \E f \in image_files : Write(f)
    \/ \E f \in image_files : ReRead(f)
    \/ \E f \in image_files : Classify(f)
    \/ \E f \in image_files : MakeDirs(f)
    \/ \E f \in image_files : Finish(f)
    \/ \E f \in image_files : Raise(f)
    \/ \E f \in image_files : Collect(f)
    \/ ReturnEmpty
    \/ Summarize

Spec == Init /\ [][Next]_vars

\* the pool runs every submitted task to its end and the as_completed loop
\* consumes every finished future: some enabled step is eventually taken
FairSpec == Spec /\ WF_vars(Next)

\* ------------------------------------------------------------------------
\* Claims about the pipeline
\* ------------------------------------------------------------------------
\* the results process_single_image can return for a file on its own
SoloAfterClassify(f, t, cfg) ==
    {StepFinish(f, t, cfg, move_ok).result : move_ok \in BOOLEAN}

SoloAfterWrite(f, done, cfg) ==
    IF done[1].pc = "GpsWritten"
    THEN UNION {SoloAfterClassify(f, StepReRead(done[1], done[2], io_error), cfg) :
                   io_error \in BOOLEAN}
    ELSE SoloAfterClassify(f, done[1], cfg)

SoloResults(f, content, cfg) ==
    LET matched == StepMatch(StepRead(NewTask, content, FALSE), cfg)
    IN  IF matched.pc = "GpsAttempted"
        THEN UNION {SoloAfterWrite(f, StepWrite(matched, content, outcome), cfg) :
                       outcome \in WriteOutcomes(content)}
        ELSE SoloAfterClassify(f, StepClassify(matched), cfg)

\* C3: whatever tasks fail (unreadable metadata, write error, move error, an
\* exception in the worker) and whatever the completion order, scan_images
\* collects exactly one result per file, and the result of every file whose
\* task did not raise is a result the file yields when processed on its own.
C3_OneResultPerFile ==
    summary # None =>
        /\ Len(results) = total
        /\ \A f \in image_files :
              /\ Cardinality({i \in 1..Len(results) : results[i].filename = f}) = 1
              /\ \A i \in 1..Len(results) :
                    results[i].filename = f =>
                        IF task[f].pc = "Raised"
                        THEN results[i] = FailedResult(f)
                        ELSE results[i] \in SoloResults(f, at_start[f], config)

\* C3 witness: a finished batch in which one task raised, another file is
\* unreadable or failed to be written, and a file was given GPS
C3_Witness ==
    /\ summary # None
    /\ \E f, g \in image_files :
          /\ task[f].pc = "Raised"
          /\ task[g].pc # "Raised"
          /\ task[g].result.added

\* the file holds a whole GPS fix: it is readable and its GPS section has
\* latitude, longitude and both references
HadGps(content) ==
    /\ content.kind \in {"image", "pil_only"}
    /\ FourTags \subseteq DOMAIN SectionOf(content.tree, "GPS")

HasCaptureTime(content) == get_image_datetime(get_exif_data(content, FALSE)) # None

WriteAttempted(f) ==
    task[f].pc \in {"GpsAttempted", "GpsWritten"} \/ task[f].write # "none"

\* C4: a GPS write is attempted on a file, and the file is changed, only if a
\* track log is supplied, the file has no GPS yet or overwrite is requested,
\* and the file has a capture time; a file that has GPS is never written when
\* overwrite is false.
C4_WriteGuard ==
    \A f \in image_files :
        (WriteAttempted(f) \/ disk[f] # at_start[f]) =>
            /\ Truthy(config.gps_log)
            /\ ~HadGps(at_start[f]) \/ config.overwrite_gps
            /\ HasCaptureTime(at_start[f])

\* C4 witness: a file that has GPS is written because overwrite is requested
C4_Witness ==
    \E f \in image_files :
        /\ HadGps(at_start[f])
        /\ config.overwrite_gps
        /\ task[f].write = "ok"
        /\ disk[f] # at_start[f]

\* C5: after a successful match and write, has_gps in the result is true if
\* and only if the metadata read again from the file contains GPS (the
\* statement of the claim; line 408 sets has_gps = True whatever is read).
C5_HasGpsFromReRead ==
    \A f \in image_files :
        (task[f].write = "ok" /\ task[f].result # None) =>
            (task[f].result.has_gps <=> task[f].gps_info_current # None)

\* C7: when add_gps_to_image fails, the file is the file that existed before
\* the call (the statement of the claim; img.save writes over the file in
\* place).
C7_FailedWriteLeavesFile ==
    \A f \in image_files :
        task[f].write = "failed" => disk[f] = task[f].before

\* C8: a successful add_gps_to_image leaves in the GPS section exactly the tags
\* built from the new fix (no tag of the previous section survives) and
\* leaves every other section of the metadata as it was.
C8_WholesaleReplace ==
    \A f \in image_files :
        task[f].write = "ok" =>
            LET c == task[f].closest_data
                now == disk[f].tree
                was == task[f].before.tree
            IN  /\ disk[f].kind = "image"
                /\ SectionOf(now, "GPS")
                      = StoredIfd(gps_ifd(c.lat, c.lon, c.alt, Datetime(c.time)))
                /\ GPSImgDirection \notin DOMAIN SectionOf(now, "GPS")
                /\ DOMAIN now.sec = DOMAIN was.sec
                /\ \A name \in DOMAIN was.sec \ {"GPS"} : now.sec[name] = was.sec[name]
                /\ now.tag = was.tag

\* C8 witness: a file whose GPS section held a tag the writer does not set is
\* written, and the new section decodes to the track point (10 N, 20 E)
C8_Witness ==
    \E f \in image_files :
        /\ task[f].write = "ok"
        /\ GPSImgDirection \in DOMAIN SectionOf(task[f].before.tree, "GPS")
        /\ convert_gps_to_decimal(get_gps_info(disk[f].tree)) = <<Float(10), Float(20)>>

\* ------------------------------------------------------------------------
\* The hemisphere references: what add_gps_to_image writes, read back by
\* convert_gps_to_decimal
\* ------------------------------------------------------------------------
\* latitudes and longitudes of both signs, zero included
SignLatitudes ==
    {Float(0), Frac(21, 2), FNeg(Frac(21, 2)), Float(10), Float(-33), FNeg(Frac(1, 4))}
SignLongitudes ==
    {Float(0), Frac(81, 4), FNeg(Frac(81, 4)), Float(20), Float(-20), Frac(1, 4)}

InitSign ==
    /\ call \in [fn : {"sign_round_trip"}, lat : SignLatitudes, lon : SignLongitudes,
                 alt : {Float(0), Frac(25, 2)}]
    /\ ret = Pending
    /\ ScanIdle

\* the gps_ifd of a fix, decoded as piexif.load hands it back (references as
\* bytes) and as it was built (references as text)
ApplySignRoundTrip ==
    /\ call.fn = "sign_round_trip"
    /\ ret = Pending
    /\ LET ifd == gps_ifd(call.lat, call.lon, call.alt, None)
       IN  ret' = [k |-> "signs",
                   lat_ref |-> ifd[GPSLatitudeRef],
                   lon_ref |-> ifd[GPSLongitudeRef],
                   lat_dms |-> ifd[GPSLatitude],
                   lon_dms |-> ifd[GPSLongitude],
                   from_bytes |-> convert_gps_to_decimal(Dict(NamedGps(StoredIfd(ifd)))),
                   from_text |-> convert_gps_to_decimal(Dict(NamedGps(ifd)))]
    /\ UNCHANGED <<call, scanVars>>

NextSign == ApplySignRoundTrip

SpecSign == InitSign /\ [][NextSign]_vars

\* the decoded coordinate has the sign of the written one and its magnitude
\* within 1e-4 degrees
SameSigned(decoded, written) ==
    /\ decoded # None
    /\ FIsNegative(decoded) = FIsNegative(written)
    /\ FWithin(FAbs(decoded), FAbs(written), 10000)

\* C11: the sign is carried by the hemisphere reference alone and round-trips:
\* for the four sign combinations of (latitude, longitude) the references
\* written are 'N'/'S' and 'E'/'W', the stored values are unsigned, decoding
\* gives the original signs back ('S' and 'W' negate), and a reference held as
\* bytes decodes to the same result as the same reference held as text.
C11_SignRoundTrip ==
    ret.k = "signs" =>
        /\ ret.lat_ref = Str(IF FIsNegative(call.lat) THEN "S" ELSE "N")
        /\ ret.lon_ref = Str(IF FIsNegative(call.lon) THEN "W" ELSE "E")
        /\ \A i \in 1..3 : ret.lat_dms.items[i].n >= 0 /\ ret.lon_dms.items[i].n >= 0
        /\ SameSigned(ret.from_bytes[1], call.lat)
        /\ SameSigned(ret.from_bytes[2], call.lon)
        /\ ret.from_bytes = ret.from_text

\* C11 witness: a fix in the south-west, decoded to negative latitude and
\* longitude from references held as bytes
C11_Witness ==
    /\ ret.k = "signs"
    /\ ret.lat_ref = Str("S") /\ ret.lon_ref = Str("W")
    /\ ret.from_bytes[1] # None /\ FIsNegative(ret.from_bytes[1])
    /\ ret.from_bytes[2] # None /\ FIsNegative(ret.from_bytes[2])

\* a track log path is given and the file it names cannot be loaded: it is
\* missing or unreadable, or it has no header line
LoadFailed == config.gps_csv_path # None /\ ~Loadable(config.gps_csv_path)

\* the configuration of a run that is given no track log path
CheckOnly(cfg) == [cfg EXCEPT !.gps_csv_path = None, !.gps_log = None]

\* C14: when a track log path is given and the log cannot be loaded, the run
\* does not abort: no file is written (added is false in every result), and
\* every file is checked, classified and, if requested, moved as in a run
\* without a track log.
C14_LoadFailureProceeds ==
    LoadFailed =>
        /\ \A f \in image_files :
              /\ task[f].pc \notin {"GpsAttempted", "GpsWritten"}
              /\ task[f].write = "none"
              /\ disk[f] = at_start[f]
              /\ task[f].result # None => ~task[f].result.added
        /\ summary # None =>
              /\ Len(results) = total
              /\ summary.count_added = 0
              /\ \A i \in 1..Len(results) :
                    /\ ~results[i].added
                    /\ task[results[i].filename].pc # "Raised" =>
                          results[i] \in SoloResults(results[i].filename,
                                                    at_start[results[i].filename],
                                                    CheckOnly(config))

\* C14 witness: the log file is missing, and the run ends with a summary that
\* counts a file with GPS and a file moved for want of GPS
C14_Witness ==
    /\ config.gps_csv_path = CsvMissing
    /\ summary # None
    /\ summary.count_gps = 1
    /\ summary.count_moved = 1

HasNote(status, note) == \E i \in 1..Len(status) : status[i] = note

\* the step in which the move of file f is tried and fails: the file was to be
\* moved, the task returns and the file is still in the folder
MoveFails(f) ==
    /\ task[f].pc = "FinalClassified"
    /\ WantsMove(task[f], config)
    /\ task'[f].pc \in {"MovedIfNoGps", "Left"}
    /\ place'[f] = "folder"

\* C15: when moving a no-GPS file to the holding directory fails, the result
\* keeps the has_gps value the file had before the move attempt, moved is
\* false, the status notes the failure, and the task returns a result.
C15_MoveFailureKeepsResult ==
    [][\A f \in image_files :
          MoveFails(f) =>
              /\ task'[f].result # None
              /\ task'[f].result.has_gps = task[f].has_gps
              /\ ~task'[f].result.moved
              /\ task'[f].result.added = task[f].added_gps
              /\ HasNote(task'[f].result.status, "move_failed")
              /\ ~HasNote(task'[f].result.status, "moved")]_vars

\* C15 witness: a run ends with its summary although the move of a file
\* failed, the file being counted neither as moved nor as having GPS
C15_Witness ==
    /\ summary # None
    /\ summary.count_moved = 0
    /\ \E i \in 1..Len(results) :
          /\ HasNote(results[i].status, "move_failed")
          /\ ~results[i].has_gps
          /\ place[results[i].filename] = "folder"

\* the file cannot be opened or decoded
ReadFails(content) == content.kind \in {"unreadable", "truncated"}

\* C17: a failure to open or decode a file makes get_exif_data return None, so
\* that the file has no GPS and no capture time; the file is classified as
\* without GPS and no write is attempted on it.
C17_ReadFailureIsNoGps ==
    \A f \in image_files :
        (ReadFails(at_start[f]) /\ task[f].pc # "Unprocessed") =>
            /\ task[f].exif_data = None
            /\ task[f].gps_info_current = None
            /\ ~task[f].has_gps
            /\ get_image_datetime(task[f].exif_data) = None
            /\ task[f].pc \notin {"GpsAttempted", "GpsWritten"}
            /\ task[f].write = "none"
            /\ disk[f] = at_start[f]
            /\ ~HasNote(task[f].status, "has_gps")
            /\ task[f].result # None =>
                  /\ ~task[f].result.has_gps
                  /\ ~task[f].result.added
                  /\ task[f].result.moved = (place[f] = "holding")

\* C17 witness: with a track log loaded, a file that cannot be opened is
\* reported without capture time, and moved for want of GPS
C17_Witness ==
    \E f \in image_files :
        /\ ReadFails(at_start[f])
        /\ Truthy(config.gps_log)
        /\ task[f].result # None
        /\ HasNote(task[f].result.status, "[no_time]")
        /\ task[f].result.moved

\* C18: every run of scan_images eventually produces its final summary, once
\* all dispatched tasks have finished and whatever number of them failed (the
\* statement of the claim; a run that finds no eligible file returns at line
\* 475 without a summary).
C18_SummaryEventually == <>(summary # None)

\* the result of file f, whenever its future is consumed
PerFileResult(f) == IF task[f].pc = "Raised" THEN FailedResult(f) ELSE task[f].result

\* C19: the counts of a run (total, with GPS, without GPS, added, moved) are
\* those of its per-file results, whatever the order in which the pool
\* completes the tasks: they depend neither on input nor on completion order.
C19_CountsOrderFree ==
    summary # None =>
        LET with_gps == Cardinality({f \in image_files : PerFileResult(f).has_gps})
        IN  /\ summary.total = Cardinality(image_files)
            /\ summary.count_gps = with_gps
            /\ summary.count_nogps_final = Cardinality(image_files) - with_gps
            /\ summary.count_added = Cardinality({f \in image_files : PerFileResult(f).added})
            /\ summary.count_moved = Cardinality({f \in image_files : PerFileResult(f).moved})

\* C19 witness: the second file completes first, the first file is the one
\* GPS was added to and the second the one moved
C19_Witness ==
    /\ summary # None
    /\ Len(results) = 2
    /\ results[1].filename = 2 /\ results[1].moved
    /\ results[2].filename = 1 /\ results[2].added
    /\ summary.count_added = 1 /\ summary.count_moved = 1

\* the states of the per-file pipeline: the write and the re-read that follows
\* it are both within GpsAttempted
Phase(pc) == IF pc = "GpsWritten" THEN "GpsAttempted" ELSE pc

PipelineEdges ==
    {<<"Unprocessed", "GpsChecked">>,
     <<"GpsChecked", "GpsAttempted">>, <<"GpsChecked", "GpsSkipped">>,
     <<"GpsAttempted", "GpsAttempted">>,
     <<"GpsAttempted", "FinalClassified">>, <<"GpsSkipped", "FinalClassified">>,
     <<"FinalClassified", "MovedIfNoGps">>, <<"FinalClassified", "Left">>}

\* what each state of the pipeline has done and has not done yet
OrderedSoFar(t, where) ==
    /\ t.pc = "Unprocessed" => t = NewTask
    /\ t.pc \in {"Unprocessed", "GpsChecked", "GpsSkipped"} =>
          t.closest_data = None /\ t.write = "none"
    /\ t.pc \in {"Unprocessed", "GpsChecked", "GpsSkipped", "GpsAttempted"} =>
          t.write = "none" /\ ~t.added_gps
    /\ t.write # "none" => t.closest_data # None
    /\ t.pc = "GpsWritten" => t.write = "ok"
    /\ t.pc \notin {"FinalClassified", "MovedIfNoGps", "Left", "Raised"} =>
          ~HasNote(t.status, "has_gps") /\ ~HasNote(t.status, "no_gps")
    /\ t.pc \notin {"MovedIfNoGps", "Left"} => t.result = None
    /\ t.pc # "MovedIfNoGps" => ~t.moved_file /\ where = "folder"

\* C20: each file moves only along Unprocessed -> GpsChecked -> (GpsAttempted
\* or GpsSkipped) -> FinalClassified -> (MovedIfNoGps or Left): the read comes
\* before the match, the match before the write, the write before the re-read
\* and the classification, the move last; no state is revisited or skipped.
\* A task that raises stops where it is.
C20_PipelineOrder ==
    [][\A f \in image_files :
          /\ task'[f].pc # task[f].pc =>
                \/ <<Phase(task[f].pc), Phase(task'[f].pc)>> \in PipelineEdges
                \/ task'[f].pc = "Raised" /\ Running(f)
          /\ OrderedSoFar(task'[f], place'[f])]_vars

\* C20 witness: one file has gone through read, match, write, re-read and
\* classification and is left in place, another has been moved
C20_Witness ==
    \E f, g \in image_files :
        /\ task[f].pc = "Left" /\ task[f].write = "ok" /\ task[f].result.has_gps
        /\ task[g].pc = "MovedIfNoGps" /\ place[g] = "holding"

\* C23: the track log is never mutated after it is loaded: across the lookups
\* of every task, in every interleaving, gps_log is the list load_gps_csv
\* returned, contents and order.
C23_LogImmutable == config.gps_log = LoadedLog(config.gps_csv_path)

\* C23 witness: two tasks have each looked a capture time up in the log and
\* found the point
C23_Witness ==
    /\ config.gps_log = TrackLog
    /\ \E f, g \in image_files :
          /\ f # g
          /\ task[f].closest_data # None
          /\ task[g].closest_data # None

\* C27: in every result of process_single_image moved implies not has_gps: a
\* file reported as having GPS is never in the holding directory (the
\* statement of the claim; after a write whose re-read finds no GPS section
\* line 408 has set has_gps while line 417 classifies the file as without GPS).
C27_MovedImpliesNoGps ==
    \A f \in image_files :
        task[f].result # None =>
            /\ task[f].result.moved => ~task[f].result.has_gps
            /\ task[f].result.has_gps => place[f] = "folder"

\* C28: in every result added implies has_gps, and added is true only if
\* add_gps_to_image returned True for that file; hence in every summary the
\* added count is at most the with-GPS count, and the with-GPS and without-GPS
\* counts add up to the total.
C28_AddedImpliesHasGps ==
    /\ \A f \in image_files :
          (task[f].result # None /\ task[f].result.added) =>
              /\ task[f].result.has_gps
              /\ task[f].write = "ok"
    /\ \A i \in 1..Len(results) : results[i].added => results[i].has_gps
    /\ summary # None =>
          /\ summary.count_added <= summary.count_gps
          /\ summary.count_gps + summary.count_nogps_final = summary.total

\* C28 witness: a summary over two files: GPS was added to one, the write to
\* the other failed
C28_Witness ==
    /\ summary # None
    /\ summary.total = 2
    /\ summary.count_added = 1
    /\ \E f, g \in image_files :
          /\ task[f].result # None /\ task[f].result.added
          /\ task[g].result # None /\ task[g].write = "failed" /\ ~task[g].result.added

\* the metadata the task holds was read before any write and has a GPS section
ReadWithGps(f) ==
    /\ task[f].pc # "Unprocessed"
    /\ task[f].write # "ok"
    /\ get_gps_info(task[f].exif_data) # None

\* C30: with overwrite requested, a file that already has GPS and for which no
\* write succeeds (no capture time, no track point within tolerance, or a
\* failed write) keeps has_gps true in its result, has added false, and is
\* never moved to the holding directory.
C30_OverwriteKeepsGps ==
    \A f \in image_files :
        (config.overwrite_gps /\ ReadWithGps(f)) =>
            /\ place[f] = "folder"
            /\ task[f].makedirs = "none"
            /\ task[f].result # None =>
                  /\ task[f].result.has_gps
                  /\ ~task[f].result.added
                  /\ ~task[f].result.moved

\* C30 witness: overwrite and move are requested, the file has GPS and a
\* capture time next to the track point, the write fails, and the result says
\* has_gps, not added, not moved
C30_Witness ==
    \E f \in image_files :
        /\ config.overwrite_gps /\ config.move_nogps
        /\ ReadWithGps(f)
        /\ task[f].write = "failed"
        /\ task[f].result # None
        /\ task[f].result.has_gps /\ ~task[f].result.added /\ ~task[f].result.moved

\* ------------------------------------------------------------------------
\* A second run over the files a first run left behind
\* ------------------------------------------------------------------------
\* a finished process_single_image call: its result and the file it leaves
Finished(filename, t, content, cfg) ==
    {[result |-> StepFinish(filename, t, cfg, move_ok).result, content |-> content] :
        move_ok \in BOOLEAN}

FinishedAfterWrite(filename, done, cfg) ==
    IF done[1].pc = "GpsWritten"
    THEN UNION {Finished(filename, StepReRead(done[1], done[2], io_error), done[2], cfg) :
                   io_error \in BOOLEAN}
    ELSE Finished(filename, done[1], done[2], cfg)

\* every way process_single_image can run to its return on a file
FirstRuns(filename, content, cfg) ==
    LET matched == StepMatch(StepRead(NewTask, content, FALSE), cfg)
    IN  IF matched.pc = "GpsAttempted"
        THEN UNION {FinishedAfterWrite(filename, StepWrite(matched, content, outcome), cfg) :
                       outcome \in WriteOutcomes(content)}
        ELSE Finished(filename, StepClassify(matched), content, cfg)

\* the files that come out of a run with has_gps true in their result
HasGpsOutputs ==
    {run.content : run \in {r \in UNION {FirstRuns(1, content, cfg) :
                                            content \in InitialContents, cfg \in Configs} :
                               r.result.has_gps}}

\* the second run is started without a track log
RerunConfigs == {cfg \in Configs : cfg.gps_csv_path = None}

InitRerun ==
    /\ call = [fn |-> "scan_images"]
    /\ ret = Pending
    /\ config \in RerunConfigs
    /\ at_start \in UNION {[1..n -> HasGpsOutputs] : n \in 1..NumFiles}
    /\ disk = at_start
    /\ place = [f \in DOMAIN at_start |-> "folder"]
    /\ task = [f \in DOMAIN at_start |-> NewTask]
    /\ collected = {}
    /\ results = <<>>
    /\ summary = None
    /\ holding_dir \in HoldingDirs

\* the steps of a run in which no track point is ever matched
NextRerun ==
    \/ \E f \in image_files : Read(f)
    \/ \E f \in image_files : Match(f)
    \/ \E f \in image_files : Classify(f)
    \/ \E f \in image_files : MakeDirs(f)
    \/ \E f \in image_files : Finish(f)
    \/ \E f \in image_files : Raise(f)
    \/ \E f \in image_files : Collect(f)
    \/ Summarize

SpecRerun == InitRerun /\ [][NextRerun]_vars

\* C12: a second run, without a track log, on a file that came out of a first
\* run with has_gps true leaves the file unchanged: no write is attempted,
\* has_gps stays true and the file is not moved (the statement of the claim; a
\* failed in-place save of the first run leaves a file the second run cannot
\* read).
C12_SecondRunIdempotent ==
    \A f \in image_files :
        /\ task[f].pc \notin {"GpsAttempted", "GpsWritten"}
        /\ task[f].write = "none"
        /\ disk[f] = at_start[f]
        /\ place[f] = "folder"
        /\ task[f].result # None => (task[f].result.has_gps /\ ~task[f].result.moved)

\* ------------------------------------------------------------------------
\* Workers moving files into a holding directory that is not there yet
\* ------------------------------------------------------------------------
\* moving is requested and there is no track log
MoveConfigs == {cfg \in Configs : cfg.move_nogps /\ cfg.gps_csv_path = None}

InitMove ==
    /\ call = [fn |-> "scan_images"]
    /\ ret = Pending
    /\ config \in MoveConfigs
    /\ at_start \in [1..NumFiles -> InitialContents]
    /\ disk = at_start
    /\ place = [f \in DOMAIN at_start |-> "folder"]
    /\ task = [f \in DOMAIN at_start |-> NewTask]
    /\ collected = {}
    /\ results = <<>>
    /\ summary = None
    /\ holding_dir = "absent"

\* the return of a task whose os.rename, if it is reached, succeeds
FinishRenamed(f) ==
    /\ Finish(f)
    /\ (WantsMove(task[f], config) /\ task[f].makedirs = "ok") => place'[f] = "holding"

\* the steps of a run in which no task raises and no os.rename fails
NextMove ==
    \/ \E f \in image_files : Read(f)
    \/ \E f \in image_files : Match(f)
    \/ \E f \in image_files : Classify(f)
    \/ \E f \in image_files : MakeDirs(f)
    \/ \E f \in image_files : FinishRenamed(f)
    \/ \E f \in image_files : Collect(f)
    \/ Summarize

SpecMove == InitMove /\ [][NextMove]_vars

\* C25: when several workers move no-GPS files into a holding directory that
\* does not exist yet, os.makedirs fails for none of them, whichever worker
\* creates the directory first, and every such file that has returned is in
\* the holding directory with moved true.
C25_ConcurrentCreate ==
    \A f \in image_files :
        /\ task[f].makedirs # "raised"
        /\ (task[f].result # None /\ WantsMove(task[f], config)) =>
              /\ task[f].result.moved
              /\ place[f] = "holding"
              /\ holding_dir = "dir"

\* C25 witness: two workers were both about to move their file while the
\* directory was not there, and both files are moved
C25_Witness ==
    /\ summary # None
    /\ summary.count_moved = 2
    /\ \A f \in image_files : task[f].makedirs = "ok" /\ place[f] = "holding"

\* ------------------------------------------------------------------------
\* A track log that loads and holds no point
\* ------------------------------------------------------------------------
\* a file with its header only, and files whose every row is skipped
ZeroPointCsvs == {Csv(<<>>), Csv(<<BadRow>>), Csv(<<BadRow, BadRow>>)}

ZeroPointConfigs ==
    {[cfg EXCEPT !.gps_csv_path = path, !.gps_log = LoadedLog(path)] :
        cfg \in Configs, path \in ZeroPointCsvs}

InitZeroPoint ==
    /\ call = [fn |-> "scan_images"]
    /\ ret = Pending
    /\ config \in ZeroPointConfigs
    /\ at_start \in UNION {[1..n -> InitialContents] : n \in 1..NumFiles}
    /\ disk = at_start
    /\ place = [f \in DOMAIN at_start |-> "folder"]
    /\ task = [f \in DOMAIN at_start |-> NewTask]
    /\ collected = {}
    /\ results = <<>>
    /\ summary = None
    /\ holding_dir = "absent"

\* the steps of a run in which no track point is ever matched
NextZeroPoint ==
    \/ \E f \in image_files : Read(f)
    \/ \E f \in image_files : Match(f)
    \/ \E f \in image_files : Classify(f)
    \/ \E f \in image_files : MakeDirs(f)
    \/ \E f \in image_files : Finish(f)
    \/ \E f \in image_files : Raise(f)
    \/ \E f \in image_files : Collect(f)
    \/ Summarize

SpecZeroPoint == InitZeroPoint /\ [][NextZeroPoint]_vars

\* the log file was read to its end and no row of it gave a point
ZeroPoints ==
    /\ config.gps_csv_path # None
    /\ Loadable(config.gps_csv_path)
    /\ ParsedRows(config.gps_csv_path.rows) = <<>>

\* C29: a track log that loads with zero valid points behaves like no track
\* log: no file is matched or written, added is false in every result, and
\* every file is classified and, if requested, moved as in a run without a
\* track log.
C29_ZeroPointsIsCheckOnly ==
    ZeroPoints =>
        /\ config.gps_log = List(<<>>)
        /\ \A f \in image_files :
              /\ task[f].pc \notin {"GpsAttempted", "GpsWritten"}
              /\ task[f].closest_data = None
              /\ task[f].write = "none"
              /\ disk[f] = at_start[f]
              /\ task[f].result # None =>
                    /\ ~task[f].result.added
                    /\ task[f].result \in SoloResults(f, at_start[f], CheckOnly(config))
        /\ summary # None =>
              /\ summary.count_added = 0
              /\ \A i \in 1..Len(results) : ~results[i].added

\* C29 witness: every row of the log was skipped, and a file without GPS whose
\* capture time is known is reported without GPS and moved
C29_Witness ==
    /\ config.gps_csv_path = Csv(<<BadRow>>)
    /\ summary # None
    /\ \E f \in image_files :
          /\ ~HadGps(at_start[f])
          /\ HasCaptureTime(at_start[f])
          /\ task[f].result # None
          /\ HasNote(task[f].result.status, "no_gps")
          /\ task[f].result.moved

\* ------------------------------------------------------------------------
\* The end-to-end scenario: three files and one track point
\* ------------------------------------------------------------------------
\* file 1 (A) has a valid GPS fix, file 2 (B) has no GPS and the capture time
\* 10:00:00, file 3 (C) has neither GPS nor capture time
ScenarioFiles ==
    <<Content("image", Tree(OldGps, CaptureText(CaptureSecond), None)),
      Content("image", Tree(EmptyDict, CaptureText(CaptureSecond), None)),
      Content("image", Tree(EmptyDict, None, None))>>

\* one point at 10:02:00 (lat 10, lon 20), tolerance 300 s, no overwrite, move
ScenarioConfig ==
    [gps_csv_path |-> TrackCsv, gps_log |-> LoadedLog(TrackCsv), overwrite_gps |-> FALSE,
     move_nogps |-> TRUE, time_tolerance |-> DEFAULT_TOLERANCE_SECONDS]

InitScenario ==
    /\ call = [fn |-> "scan_images"]
    /\ ret = Pending
    /\ config = ScenarioConfig
    /\ at_start = ScenarioFiles
    /\ disk = at_start
    /\ place = [f \in DOMAIN at_start |-> "folder"]
    /\ task = [f \in DOMAIN at_start |-> NewTask]
    /\ collected = {}
    /\ results = <<>>
    /\ summary = None
    /\ holding_dir = "absent"

NextScenario ==
    \/ \E f \in image_files : Read(f)
    \/ \E f \in image_files : Match(f)
    \/ \E f \in image_files : Write(f)
    \/ \E f \in image_files : ReRead(f)
    \/ \E f \in image_files : Classify(f)
    \/ \E f \in image_files : MakeDirs(f)
    \/ \E f \in image_files : Finish(f)
    \/ \E f \in image_files : Raise(f)
    \/ \E f \in image_files : Collect(f)
    \/ Summarize

SpecScenario == InitScenario /\ [][NextScenario]_vars

\* no operation of the run has failed: no task raised, no write, re-read or
\* move failed
NoFailure ==
    \A f \in image_files :
        /\ task[f].pc # "Raised"
        /\ task[f].write # "failed"
        /\ task[f].write = "ok" /\ task[f].pc # "GpsWritten" => task[f].exif_data # None
        /\ \A i \in 1..Len(task[f].status) : task[f].status[i] # "move_failed"

ResultFor(f) == results[CHOOSE i \in 1..Len(results) : results[i].filename = f]

\* C13: in the scenario, when nothing fails and under every completion order,
\* A is not written and has GPS, B is written with (10, 20) and has GPS, C has
\* no GPS and is moved, and the summary is total 3, with GPS 2, without GPS 1,
\* added 1, moved 1.
C13_EndToEnd ==
    (summary # None /\ NoFailure) =>
        /\ disk[1] = at_start[1] /\ task[1].write = "none"
        /\ ResultFor(1).has_gps /\ ~ResultFor(1).added /\ ~ResultFor(1).moved
        /\ place[1] = "folder"
        /\ task[2].write = "ok"
        /\ convert_gps_to_decimal(get_gps_info(get_exif_data(disk[2], FALSE)))
              = <<Float(10), Float(20)>>
        /\ ResultFor(2).has_gps /\ ResultFor(2).added /\ ~ResultFor(2).moved
        /\ place[2] = "folder"
        /\ disk[3] = at_start[3]
        /\ ~ResultFor(3).has_gps /\ ~ResultFor(3).added /\ ResultFor(3).moved
        /\ place[3] = "holding"
        /\ summary = [total |-> 3, count_gps |-> 2, count_nogps_final |-> 1,
                      count_added |-> 1, count_moved |-> 1]

\* C13 witness: the scenario has run without failure, the file without capture
\* time finishing first and the file with GPS last
C13_Witness ==
    /\ summary # None
    /\ NoFailure
    /\ results[1].filename = 3
    /\ results[3].filename = 1
    /\ summary.count_added = 1

\* ------------------------------------------------------------------------
\* Inputs of _convert_to_degrees: well-formed and malformed values
\* ------------------------------------------------------------------------
DegreeElements ==
    {Pair(10, 1), Pair(1, 0), Rat(30, 1), Rat(1, 0), PyInt(30), PyFloat(Frac(1, 2)), Str("x")}

DegreeValues ==
    {Tuple(s) : s \in UNION {[1..n -> DegreeElements] : n \in 2..3}}
        \cup {Tuple(<<Pair(10, 1), Pair(30, 1), Pair(0, 1), Pair(0, 1)>>),
              Tuple(<<>>), Str("10 30 0"), PyInt(10), PyFloat(Frac(21, 2)), Pair(21, 2)}

InitDegrees ==
    /\ call \in [fn : {"_convert_to_degrees"}, value : DegreeValues]
    /\ ret = Pending
    /\ ScanIdle

ApplyDegrees ==
    /\ call.fn = "_convert_to_degrees"
    /\ ret = Pending
    /\ ret' = [k |-> "degrees", value |-> _convert_to_degrees(call.value)]
    /\ UNCHANGED <<call, scanVars>>

NextDegrees == ApplyDegrees

SpecDegrees == InitDegrees /\ [][NextDegrees]_vars

\* the shape of one element: a rational pair, a plain number, a rational
\* object, or none of these
ShapeClass(e) ==
    CASE e.sh = "pair" -> "pair"
      [] e.sh \in {"int", "float"} -> "plain"
      [] e.sh = "rat" -> "rational"
      [] OTHER -> "unrecognized"

Malformed(value) ==
    \/ value.sh # "seq"
    \/ Len(value.items) # 3
    \/ \E i \in 1..Len(value.items) : ShapeClass(value.items[i]) = "unrecognized"
    \/ \E i, j \in 1..Len(value.items) :
          ShapeClass(value.items[i]) # ShapeClass(value.items[j])
    \/ \E i \in 1..Len(value.items) :
          value.items[i].sh \in {"pair", "rat"} /\ value.items[i].d = 0

\* C16: for every malformed degree/minute/second value (not a 3-element
\* sequence, elements of mixed shapes, a zero denominator, an unrecognized
\* element shape) _convert_to_degrees returns None (the statement of the
\* claim; a rational object followed by plain ints is converted, ints having
\* a numerator and a denominator).
C16_MalformedIsAbsent ==
    (ret.k = "degrees" /\ Malformed(call.value)) => ret.value = None

\* ------------------------------------------------------------------------
\* Inputs of load_gps_csv: files of up to MaxRows rows, with rows out of
\* order, rows of equal time and rows that do not parse
\* ------------------------------------------------------------------------
MaxRows == 3

LoadRows ==
    {BadRow, OverflowRow}
        \cup {CsvRow(t, lat, Float(20), Float(0)) : t \in 0..2, lat \in {Float(10), Float(-33)}}

LoadFiles ==
    {CsvMissing, CsvEmpty}
        \cup {Csv(rows) : rows \in UNION {[1..n -> LoadRows] : n \in 0..MaxRows}}

InitLoad ==
    /\ call \in [fn : {"load_gps_csv"}, csv : LoadFiles]
    /\ ret = Pending
    /\ ScanIdle

ApplyLoad ==
    /\ call.fn = "load_gps_csv"
    /\ ret = Pending
    /\ ret' = [k |-> "loaded", log |-> load_gps_csv(call.csv)]
    /\ UNCHANGED <<call, scanVars>>

NextLoad == ApplyLoad

SpecLoad == InitLoad /\ [][NextLoad]_vars

\* the point a parsed row stands for
PointOf(row) == [time |-> row.time, lat |-> row.lat, lon |-> row.lon, alt |-> row.alt]

\* items holds the parsed rows of rows, each once, in ascending time, rows of
\* equal time in file order
StablySorted(items, rows) ==
    LET parsed == {i \in 1..Len(rows) : rows[i].k = "row"}
    IN  /\ Len(items) = Cardinality(parsed)
        /\ \E pi \in [1..Len(items) -> parsed] :
              /\ \A i, j \in 1..Len(items) : i # j => pi[i] # pi[j]
              /\ \A i \in 1..Len(items) : items[i] = PointOf(rows[pi[i]])
              /\ \A i, j \in 1..Len(items) :
                    i < j => \/ rows[pi[i]].time < rows[pi[j]].time
                             \/ rows[pi[i]].time = rows[pi[j]].time /\ pi[i] < pi[j]

\* C22: the sequence load_gps_csv returns is sorted ascending by time, holds
\* exactly one point per successfully parsed row (rows of equal time are all
\* kept), and rows of equal time keep their file order.
C22_LoadSortedStable ==
    (ret.k = "loaded" /\ ret.log # None) =>
        /\ IsSortedByTime(ret.log.items)
        /\ StablySorted(ret.log.items, call.csv.rows)

\* C22 witness: a file of three parsed rows, out of order, two of them of
\* equal time and different latitude, which are kept in file order
C22_Witness ==
    /\ ret.k = "loaded" /\ ret.log # None
    /\ Len(call.csv.rows) = 3
    /\ Len(ret.log.items) = 3
    /\ call.csv.rows[1].time > call.csv.rows[2].time
    /\ call.csv.rows[1].time = call.csv.rows[3].time
    /\ call.csv.rows[1].lat # call.csv.rows[3].lat
    /\ ret.log.items[2] = PointOf(call.csv.rows[1])
    /\ ret.log.items[3] = PointOf(call.csv.rows[3])

====
